---- MODULE Spec2Model ----
(***************************************************************************)
(* Interlocking and dispatch control engine of the Track Control module   *)
(* (Track_Model/TrackControl.py): the active-train registry, the dispatch *)
(* state machine, the PLC scan (switches, lights, gates, failures) and    *)
(* the safety checks run from the state machine.                          *)
(***************************************************************************)
EXTENDS Integers, Sequences, FiniteSets, TLC

(***************************************************************************)
(* Bounds of the model                                                     *)
(***************************************************************************)
MaxTime == 10

MaxTimeLong == 20

MaxOccupied == 3

ClockStep == 5

(***************************************************************************)
(* Program constants (TrackControl.__init__)                               *)
(***************************************************************************)
DWELL_TIME == 10

LIGHT_DISTANCE_RED == 1

LIGHT_DISTANCE_YELLOW == 3

LIGHT_DISTANCE_GREEN == 5

GATE_CLOSE_DISTANCE == 5

GATE_OPEN_DELAY == 3

SWITCH_LOOKOUT == 5

YARD_DISTANCE == 200

AUTHORITY_BUFFER == 10

SEPARATION_FALLBACK == 500

DEFAULT_SPEED == 30
\* "accel" and "decel" of the speed computation, in hundredths of ft/s^2
accel == 164
decel == 394
\* the ft/s to mph factor 0.681818, in millionths
FPS_TO_MPH == 681818
\* feet per yard (total_distance_yards * 3.0)
FEET_PER_YARD == 3
\* largest speed in mph the dispatch accepts
MAX_SPEED == 100

Lines == {"Green", "Red"}

switch_blocks(line) ==
  IF line = "Green" THEN <<13, 28, 57, 63, 77, 85>>
  ELSE <<9, 16, 27, 33, 38, 44, 52>>

light_blocks(line) ==
  IF line = "Green" THEN <<0, 3, 7, 29, 58, 62, 76, 86, 100, 101, 150, 151>>
  ELSE <<0, 8, 14, 26, 31, 37, 42, 51>>

gate_blocks(line) ==
  IF line = "Green" THEN <<19, 108>> ELSE <<11, 47>>

\* infrastructure[line]["stations"], in dictionary order
station_names(line) ==
  IF line = "Green"
  THEN <<"Pioneer", "Edgebrook", "Whited", "South Bank", "Central",
         "Inglewood", "Overbrook", "Glenbury", "Dormont", "Mt. Lebanon",
         "Poplar", "Castle Shannon">>
  ELSE <<"Shadyside", "Herron Ave", "Swissville", "Penn Station",
         "Steel Plaza", "First Ave", "Station Square", "South Hills">>

stations(line, name) ==
  IF line = "Green"
  THEN CASE name = "Pioneer" -> <<2>>
         [] name = "Edgebrook" -> <<9>>
         [] name = "Whited" -> <<22>>
         [] name = "South Bank" -> <<31>>
         [] name = "Central" -> <<39, 141>>
         [] name = "Inglewood" -> <<48, 132>>
         [] name = "Overbrook" -> <<57, 123>>
         [] name = "Glenbury" -> <<65, 114>>
         [] name = "Dormont" -> <<73, 105>>
         [] name = "Mt. Lebanon" -> <<77>>
         [] name = "Poplar" -> <<88>>
         [] name = "Castle Shannon" -> <<96>>
         [] OTHER -> <<>>
  ELSE CASE name = "Shadyside" -> <<7>>
         [] name = "Herron Ave" -> <<16>>
         [] name = "Swissville" -> <<21>>
         [] name = "Penn Station" -> <<25>>
         [] name = "Steel Plaza" -> <<35>>
         [] name = "First Ave" -> <<45>>
         [] name = "Station Square" -> <<48>>
         [] name = "South Hills" -> <<60>>
         [] OTHER -> <<>>

\* lengths of the default snapshot arrays (_ensure_json_files)
OccupancyLen(line) == IF line = "Green" THEN 151 ELSE 77

FailuresLen(line) == IF line = "Green" THEN 151 ELSE 77

(***************************************************************************)
(* Python list helpers                                                     *)
(***************************************************************************)
Min(a, b) == IF a < b THEN a ELSE b

Max(a, b) == IF a > b THEN a ELSE b

Abs(a) == IF a < 0 THEN 0 - a ELSE a

InSeq(x, s) == \E i \in 1..Len(s) : s[i] = x

\* s.index(x): 0-based position of the first occurrence, -1 when absent
IndexOf(s, x) ==
  IF InSeq(x, s)
  THEN (CHOOSE i \in 1..Len(s) : s[i] = x /\ \A j \in 1..(i - 1) : s[j] # x) - 1
  ELSE -1

\* s[i:j] with 0-based bounds, clipped as Python clips them
Slice(s, i, j) ==
  IF Min(j, Len(s)) <= Max(i, 0) THEN <<>>
  ELSE SubSeq(s, Max(i, 0) + 1, Min(j, Len(s)))

\* list(range(a, b))
PyRange(a, b) == IF b > a THEN [i \in 1..(b - a) |-> a + i - 1] ELSE <<>>

\* list(range(a, b, -1))
PyRangeDown(a, b) == IF a > b THEN [i \in 1..(a - b) |-> a - i + 1] ELSE <<>>

SeqToSet(s) == {s[i] : i \in 1..Len(s)}

(***************************************************************************)
(* Route and path resolution                                               *)
(***************************************************************************)
\* marks the ValueError raised for an unhandled block pair
PathError == <<-1>>

IsPathError(p) == p = PathError

\* prefix of seq up to and including the first occurrence of x (whole seq if absent)
UpTo(s, x) == IF InSeq(x, s) THEN SubSeq(s, 1, IndexOf(s, x) + 1) ELSE s

GreenDestBlock(destination) ==
  CASE destination = "Glenbury" -> 65
    [] destination = "Dormont" -> 73
    [] destination = "Overbrook" -> 123
    [] destination = "Inglewood" -> 132
    [] destination = "Central" -> 141
    [] OTHER -> stations("Green", destination)[1]

_get_stations_on_path_to_destination(line, destination) ==
  IF line = "Green"
  THEN LET dest_block == GreenDestBlock(destination)
           before_77 == <<65, 73, 77>>
           poplar_spur == <<88, 96>>
           main_loop == <<105, 114, 123, 132, 141>>
           return_path == <<31, 22, 9, 2>>
       IN IF InSeq(dest_block, before_77) THEN UpTo(before_77, dest_block)
          ELSE IF dest_block \in {88, 96}
               THEN before_77 \o UpTo(poplar_spur, dest_block)
               ELSE IF InSeq(dest_block, main_loop)
                    THEN before_77 \o UpTo(main_loop, dest_block)
                    ELSE before_77 \o main_loop \o UpTo(return_path, dest_block)
  ELSE LET ordered == <<7, 16, 21, 25, 35, 45, 48, 60>>
       IN UpTo(ordered, stations("Red", destination)[1])

_fill_blocks_between_stations(s, e) ==
  IF s = 77 /\ e >= 101 THEN <<77, 101>> \o PyRange(102, e + 1)
  ELSE IF s = 77 /\ 78 <= e /\ e <= 100 THEN PyRange(77, e + 1)
  ELSE IF 78 <= s /\ s <= 100 /\ 78 <= e /\ e <= 100 THEN PyRange(s, e + 1)
  ELSE IF 78 <= s /\ s <= 100 /\ e >= 101
       THEN PyRange(s, 101) \o PyRangeDown(100, 76) \o <<101>> \o PyRange(102, e + 1)
  ELSE IF 78 <= s /\ s <= 100 /\ e <= 62
       THEN PyRange(s, 101) \o PyRangeDown(100, 76) \o <<101>> \o PyRange(102, 151)
            \o (IF e >= 28 THEN <<28>> \o PyRange(29, e + 1)
                ELSE <<28>> \o PyRange(29, 63) \o PyRange(1, e + 1))
  ELSE IF 101 <= s /\ s <= 150 /\ 63 <= e /\ e <= 77
       THEN PyRange(s, 151) \o <<28>> \o PyRange(29, 63) \o PyRange(63, e + 1)
  ELSE IF 101 <= s /\ s <= 150 /\ 28 <= e /\ e <= 62
       THEN PyRange(s, 151) \o <<28>> \o PyRange(29, e + 1)
  ELSE IF 101 <= s /\ s <= 150 /\ 1 <= e /\ e <= 27
       THEN PyRange(s, 151) \o <<28>> \o PyRange(29, 63) \o PyRange(1, e + 1)
  ELSE IF s = 150 /\ e <= 62
       THEN IF e >= 28 THEN <<150, 28>> \o PyRange(29, e + 1)
            ELSE <<150, 28>> \o PyRange(29, 63) \o PyRange(1, e + 1)
  ELSE IF 1 <= s /\ s <= 62 /\ e >= 63 THEN PyRange(s, 64) \o PyRange(64, e + 1)
  ELSE IF 9 <= s /\ s <= 13 /\ e <= 2
       THEN PyRange(s, 14) \o (IF e = 2 THEN <<1, 2>> ELSE <<1>>)
  ELSE IF 63 <= s /\ s <= 77 /\ 63 <= e /\ e <= 77 THEN PyRange(s, e + 1)
  ELSE IF 101 <= s /\ s <= 150 /\ 101 <= e /\ e <= 150 THEN PyRange(s, e + 1)
  ELSE IF 28 <= s /\ s <= 62 /\ 28 <= e /\ e <= 62
       THEN IF s < e THEN PyRange(s, e + 1) ELSE PyRangeDown(s, e - 1)
  ELSE IF 1 <= s /\ s <= 27 /\ 1 <= e /\ e <= 27
       THEN IF s < e THEN PyRange(s, e + 1) ELSE PyRangeDown(s, e - 1)
  ELSE PathError

\* station name whose block list holds the block, "" when none
StationOfBlock(line, block) ==
  LET names == station_names(line)
      hits == {i \in 1..Len(names) : InSeq(block, stations(line, names[i]))}
  IN IF hits = {} THEN ""
     ELSE names[CHOOSE i \in hits : \A j \in hits : i <= j]

RECURSIVE GreenYardLegs(_, _)
\* blocks appended for station_route[i..] when the path starts in the yard
GreenYardLegs(station_route, i) ==
  IF i >= Len(station_route) THEN <<>>
  ELSE LET seg == _fill_blocks_between_stations(station_route[i], station_route[i + 1])
           rest == GreenYardLegs(station_route, i + 1)
       IN IF IsPathError(seg) \/ IsPathError(rest) THEN PathError
          ELSE Tail(seg) \o rest

RECURSIVE RedYardLegs(_, _)
RedYardLegs(station_route, i) ==
  IF i >= Len(station_route) THEN <<>>
  ELSE PyRange(IF i = 1 THEN 9 ELSE station_route[i], station_route[i + 1] + 1)
       \o RedYardLegs(station_route, i + 1)

_calculate_complete_block_path(start_block, end_block, line) ==
  LET destination_station == StationOfBlock(line, end_block)
  IN IF destination_station = "" THEN PyRange(start_block, end_block + 1)
     ELSE LET station_route ==
                _get_stations_on_path_to_destination(line, destination_station)
          IN IF line = "Red"
             THEN IF start_block = 0 THEN <<0>> \o RedYardLegs(station_route, 1)
                  ELSE PyRange(start_block, end_block + 1)
             ELSE IF start_block = 0
                  THEN LET legs == GreenYardLegs(station_route, 1)
                       IN IF IsPathError(legs) THEN PathError
                          ELSE <<0>> \o PyRange(63, station_route[1] + 1) \o legs
                  ELSE _fill_blocks_between_stations(start_block, end_block)

\* complete_path.extend(segment[1:]) for the stations left in the route
RECURSIVE ExtendSegments(_, _, _)
JoinSegment(segment, rest) ==
  IF IsPathError(segment) \/ IsPathError(rest) THEN PathError
  ELSE SubSeq(segment, 2, Len(segment)) \o rest

ExtendSegments(start, route, line) ==
  IF route = <<>> THEN <<>>
  ELSE JoinSegment(_calculate_complete_block_path(start, Head(route), line),
                   ExtendSegments(Head(route), Tail(route), line))

YardFirst(blocks) == IF IsPathError(blocks) THEN PathError ELSE <<0>> \o blocks

\* the block path from the yard through every station block of the route
_expand_route_to_complete_path(route, line) ==
  IF route = <<>> THEN <<0>> ELSE YardFirst(ExtendSegments(0, route, line))

_trim_route_from_start_station(start_station, end_station, full_route) ==
  LET start_block == stations("Green", start_station)[1]
      end_block == stations("Green", end_station)[1]
      start_idx == IndexOf(full_route, start_block)
      end_idx == IndexOf(full_route, end_block)
      loop_prefix == SelectSeq(<<105, 114, 123, 132, 141, 150>>,
                               LAMBDA b : b >= start_block)
      close_stations == <<31, 39, 48, 57>>
  IN IF start_idx < 0 \/ end_idx < 0 THEN full_route
     ELSE IF end_idx > start_idx THEN Slice(full_route, start_idx, end_idx + 1)
     ELSE IF start_station \in {"Poplar", "Castle Shannon"}
          THEN IF InSeq(77, full_route)
               THEN Slice(full_route, IndexOf(full_route, 77), Len(full_route))
               ELSE full_route
     ELSE IF start_block \in {105, 114, 123, 132, 141}
          THEN IF end_block \in {31, 39, 48, 57, 22, 9, 2}
               THEN loop_prefix \o <<28>> \o PyRangeDown(27, end_block - 1)
                    \o <<end_block>>
               ELSE loop_prefix \o <<28>> \o PyRange(29, 63)
                    \o PyRange(63, end_block + 1)
     ELSE IF start_block \in {31, 39, 48, 57}
          THEN IF InSeq(end_block, close_stations)
                  /\ IndexOf(close_stations, end_block)
                       > IndexOf(close_stations, start_block)
               THEN Slice(close_stations, IndexOf(close_stations, start_block),
                          IndexOf(close_stations, end_block) + 1)
               ELSE Slice(close_stations, IndexOf(close_stations, start_block), 4)
                    \o full_route
     ELSE IF start_block \in {22, 9, 2}
          THEN IF end_block \in {31, 39, 48, 57}
               THEN PyRange(start_block, end_block + 1)
               ELSE full_route
     ELSE Slice(full_route, start_idx, end_idx + 1)

\* route_lookup_via_station.get((line, start_station, dest), [])
route_lookup_via_station(line, start_station, dest) ==
  IF ~InSeq(dest, station_names(line)) THEN <<>>
  ELSE IF start_station = "Yard"
       THEN _get_stations_on_path_to_destination(line, dest)
  ELSE IF ~InSeq(start_station, station_names(line)) \/ start_station = dest
       THEN <<>>
  ELSE _trim_route_from_start_station(
         start_station, dest, _get_stations_on_path_to_destination(line, dest))

(***************************************************************************)
(* Static track data (track_model_static.json), read on every use.        *)
(* A file is either unreadable or lists a length for some of the blocks.   *)
(***************************************************************************)
GreenBlocks == 1..150

\* "Block Length (m)" of the entries of the file used by the model
BlockLengthM(b) == 50 + 10 * (b % 6)

CompleteFile == [readable |-> TRUE, lengths |-> [b \in GreenBlocks |-> BlockLengthM(b)]]

PartialFile ==
  [readable |-> TRUE, lengths |-> [b \in GreenBlocks \ {64, 74} |-> BlockLengthM(b)]]

UnreadableFile == [readable |-> FALSE, lengths |-> <<>>]

StaticFiles == {CompleteFile, PartialFile, UnreadableFile}

RECURSIVE SumLengths(_, _)
\* metres accumulated by the lookup loops: a block with no entry adds nothing
SumLengths(static_data, blocks) ==
  IF blocks = <<>> THEN 0
  ELSE (IF Head(blocks) \in DOMAIN static_data.lengths
        THEN static_data.lengths[Head(blocks)] ELSE 0)
       + SumLengths(static_data, Tail(blocks))

\* int(metres * 1.09361)
MetersToYards(m) == (m * 109361) \div 100000

(***************************************************************************)
(* State                                                                   *)
(***************************************************************************)
VARIABLES
  active_trains,   \* train id -> train record (self.active_trains)
  order,           \* insertion order of the keys of active_trains
  switches,        \* line -> "{prefix}-switches" array of the snapshot file
  lights,          \* line -> "{prefix}-lights" array (2 bits per light)
  gates,           \* line -> "{prefix}-gates" array
  occupancy,       \* line -> indices of "{prefix}-Occupancy" that hold 1
  failures,        \* line -> indices of "{prefix}-Failures" that are non-zero
  train_cmd,       \* line -> "{prefix}-Train" commanded speed / authority
  gate_timers,     \* (line, gate block) -> recorded time (self.gate_timers)
  static_file,     \* content of track_model_static.json
  now,             \* wall clock in seconds (datetime.now())
  running,         \* schedule_manager.running
  active_schedule, \* schedule_manager.active_schedule
  schedule_index,  \* schedule_manager.schedule_index
  io_file,         \* what the snapshot file holds on disk: "complete", or
                   \* "empty" / "partial" while a writer has it open
  pc,              \* position of the control loop inside its tick
  track_data,      \* the snapshot arrays the tick holds between its read of
                   \* the file and its write (track_data of the tick)
  observed,        \* history: what the last read of the snapshot file found
  tick_start,      \* history: registry, switches, lights, gates and commands
                   \* at the top of the last tick that was skipped or run in
                   \* steps
  gate_seen,       \* history: (line, gate block) -> time of the last scan that
                   \* found a train on or near the crossing
  last             \* history: the kind of operation that produced the state

vars == <<active_trains, order, switches, lights, gates, occupancy, failures,
          train_cmd, gate_timers, static_file, now, running, active_schedule,
          schedule_index, io_file, pc, track_data, observed, tick_start, gate_seen,
          last>>

\* the schedule, the snapshot file on disk and the position of the control
\* loop are left alone
Quiet ==
  UNCHANGED <<running, active_schedule, schedule_index, io_file, pc, observed,
              tick_start, track_data>>

None == -1

\* speeds are floats in mph; the registry of the model holds them in
\* thousandths of a mph
MilliMph(mph) == mph * 1000

\* the record written by _manual_dispatch for a train that is not registered;
\* keys the code reads with a default are held at that default
NewTrain(line, dest, arrival, route) ==
  [line |-> line, destination |-> dest, current_block |-> 0,
   commanded_speed |-> 0, commanded_authority |-> 0, state |-> "Dispatching",
   current_station |-> "Yard", arrival_time |-> arrival, route |-> route,
   current_leg_index |-> 0, next_station_block |-> route[1],
   dwell_start_time |-> None, expected_path |-> <<>>,
   scheduled_speed |-> MilliMph(DEFAULT_SPEED), separation_stopped |-> FALSE,
   red_light_stopped |-> FALSE, yellow_light_warned |-> FALSE,
   failure_stopped |-> FALSE]

Init ==
  /\ active_trains = <<>>
  /\ order = <<>>
  /\ switches = [l \in Lines |-> [i \in 1..Len(switch_blocks(l)) |-> 0]]
  /\ lights = [l \in Lines |->
                 [i \in 1..(2 * Len(light_blocks(l))) |-> IF i % 2 = 1 THEN 0 ELSE 1]]
  /\ gates = [l \in Lines |-> [i \in 1..Len(gate_blocks(l)) |-> 1]]
  /\ occupancy = [l \in Lines |-> {}]
  /\ failures = [l \in Lines |-> {}]
  /\ train_cmd = [l \in Lines |-> [speed |-> <<>>, authority |-> <<>>]]
  /\ gate_timers = <<>>
  /\ static_file = CompleteFile
  /\ now = 0
  /\ running = FALSE
  /\ active_schedule = <<>>
  /\ schedule_index = 0
  /\ io_file = "complete"
  /\ pc = "top"
  /\ observed = "complete"
  /\ tick_start = <<active_trains, switches, lights, gates, train_cmd>>
  /\ track_data = [switches |-> switches, lights |-> lights, gates |-> gates,
                   occupancy |-> occupancy, failures |-> failures]
  /\ gate_seen = <<>>
  /\ last = "env"

(***************************************************************************)
(* Operations outside the control loop                                     *)
(***************************************************************************)
_manual_dispatch(train_id, line, dest, arrival) ==
  LET start_station == IF train_id \in DOMAIN active_trains
                       THEN active_trains[train_id].current_station
                       ELSE "Yard"
      route == route_lookup_via_station(line, start_station, dest)
  IN /\ route # <<>>
     /\ IF train_id \notin DOMAIN active_trains
        THEN /\ active_trains' = active_trains @@
                                  (train_id :> NewTrain(line, dest, arrival, route))
             /\ order' = Append(order, train_id)
        ELSE /\ active_trains' =
                  [active_trains EXCEPT ![train_id] =
                     [@ EXCEPT !.line = line, !.destination = dest,
                               !.current_block = 0, !.commanded_speed = 0,
                               !.commanded_authority = 0, !.state = "Dispatching",
                               !.arrival_time = arrival, !.route = route,
                               !.next_station_block = route[1],
                               !.dwell_start_time = None]]
             /\ order' = order
     /\ last' = "env"
     /\ UNCHANGED <<switches, lights, gates, occupancy, failures, train_cmd,
                    gate_timers, static_file, now, gate_seen>>
     /\ Quiet

\* the track model rewrites the occupancy array of a line
write_occupancy_to_json(line, occ) ==
  /\ occ # occupancy[line]
  /\ occupancy' = [occupancy EXCEPT ![line] = occ]
  /\ last' = "env"
  /\ UNCHANGED <<active_trains, order, switches, lights, gates, failures,
                 train_cmd, gate_timers, static_file, now, gate_seen>>
  /\ Quiet

\* the maintenance panel reads the snapshot, sets one switch and writes it
_maint_set_switch(line, idx, state) ==
  /\ switches[line][idx] # state
  /\ switches' = [switches EXCEPT ![line][idx] = state]
  /\ last' = "env"
  /\ UNCHANGED <<active_trains, order, lights, gates, occupancy, failures,
                 train_cmd, gate_timers, static_file, now, gate_seen>>
  /\ Quiet

_maint_set_failure(line, block, failure) ==
  /\ (failure # 0) # (block \in failures[line])
  /\ failures' = [failures EXCEPT ![line] =
                    IF failure # 0 THEN @ \cup {block} ELSE @ \ {block}]
  /\ last' = "env"
  /\ UNCHANGED <<active_trains, order, switches, lights, gates, occupancy,
                 train_cmd, gate_timers, static_file, now, gate_seen>>
  /\ Quiet

\* indices of the three entries (power, circuit, broken rail) that the track
\* model writes for a block; blocks are numbered from 1 in sorted order, as
\* the position ingestion takes them
FailureBits(block) == {3 * (block - 1) + bit : bit \in 0..2}

\* the track model rewrites the failure array of a line from the failure
\* bits of its blocks; failed is a set of <<block, bit>>
write_failures_to_json(line, failed) ==
  /\ failures' = [failures EXCEPT ![line] =
                    {3 * (pair[1] - 1) + pair[2] : pair \in failed}]
  /\ failures' # failures
  /\ last' = "env"
  /\ UNCHANGED <<active_trains, order, switches, lights, gates, occupancy,
                 train_cmd, gate_timers, static_file, now, gate_seen>>
  /\ Quiet

Elapse(d, limit) ==
  /\ now + d <= limit
  /\ now' = now + d
  /\ last' = "env"
  /\ UNCHANGED <<active_trains, order, switches, lights, gates, occupancy,
                 failures, train_cmd, gate_timers, static_file, gate_seen>>
  /\ Quiet

\* track_model_static.json is replaced (cleared on close, or loaded again)
write_static_data(file) ==
  /\ file # static_file
  /\ static_file' = file
  /\ last' = "env"
  /\ UNCHANGED <<active_trains, order, switches, lights, gates, occupancy,
                 failures, train_cmd, gate_timers, now, gate_seen>>
  /\ Quiet

\* a schedule file is loaded; schedule_loaded is not held separately: with
\* no file loaded the schedule is empty and process_schedule_tick returns on
\* either test
load_schedule_file(schedule) ==
  /\ active_schedule' = schedule
  /\ schedule_index' = 0
  /\ last' = "env"
  /\ UNCHANGED <<active_trains, order, switches, lights, gates, occupancy,
                 failures, train_cmd, gate_timers, static_file, now, gate_seen,
                 running, io_file, pc, observed, tick_start, track_data>>

_start_automatic ==
  /\ ~running
  /\ running' = TRUE
  /\ last' = "env"
  /\ UNCHANGED <<active_trains, order, switches, lights, gates, occupancy,
                 failures, train_cmd, gate_timers, static_file, now, gate_seen,
                 active_schedule, schedule_index, io_file, pc, observed,
                 tick_start, track_data>>

_stop_automatic ==
  /\ running
  /\ running' = FALSE
  /\ last' = "stop"
  /\ UNCHANGED <<active_trains, order, switches, lights, gates, occupancy,
                 failures, train_cmd, gate_timers, static_file, now, gate_seen,
                 active_schedule, schedule_index, io_file, pc, observed,
                 tick_start, track_data>>

(***************************************************************************)
(* Position ingestion                                                      *)
(***************************************************************************)
Inf == 1000000

\* distance of an occupied block from a train, as _update_train_positions ranks it
MatchDistance(t, actual_block) ==
  IF t.expected_path # <<>> /\ InSeq(actual_block, t.expected_path)
  THEN LET current_idx == IF InSeq(t.current_block, t.expected_path)
                          THEN IndexOf(t.expected_path, t.current_block) ELSE 0
       IN Abs(IndexOf(t.expected_path, actual_block) - current_idx)
  ELSE IF t.current_block # 0 THEN Abs(actual_block - t.current_block) ELSE Inf

\* BestMatch reading the array index as the block number
BestMatch_RawIndex(t, occ, assigned) ==
  LET cands == occ \ assigned
      ok == {b \in cands : MatchDistance(t, b) < Inf}
  IN IF ok = {} THEN 0
     ELSE CHOOSE b \in ok :
            \A c \in ok : \/ MatchDistance(t, b) < MatchDistance(t, c)
                          \/ (MatchDistance(t, b) = MatchDistance(t, c) /\ b <= c)

\* best_match of one train: 0 when no occupied block qualifies
BestMatch(t, occ, assigned) ==
  LET cands == {i + 1 : i \in occ} \ assigned
      ok == {b \in cands : MatchDistance(t, b) < Inf}
  IN IF ok = {} THEN 0
     ELSE CHOOSE b \in ok :
            \A c \in ok : \/ MatchDistance(t, b) < MatchDistance(t, c)
                          \/ (MatchDistance(t, b) = MatchDistance(t, c) /\ b <= c)

RECURSIVE UpdateFrom(_, _, _, _, _)
UpdateFrom(trains, ids, occ, line, assigned) ==
  IF ids = <<>> THEN trains
  ELSE LET id == Head(ids)
           t == trains[id]
           best == BestMatch(t, occ, assigned)
       IN IF t.line # line \/ best = 0
          THEN UpdateFrom(trains, Tail(ids), occ, line, assigned)
          ELSE UpdateFrom(
                 [trains EXCEPT ![id] =
                    [@ EXCEPT !.current_block = best,
                              !.current_station =
                                 IF StationOfBlock(line, best) # ""
                                 THEN StationOfBlock(line, best) ELSE @]],
                 Tail(ids), occ, line, assigned \cup {best})

_update_train_positions(trains, ids, occ, line) ==
  IF occ = {} THEN trains ELSE UpdateFrom(trains, ids, occ, line, {})

(***************************************************************************)
(* Safety checks run from the state machine                                *)
(* A step result is [t |-> train record, ret |-> returned flag,            *)
(* exc |-> an exception left the function].                                *)
(***************************************************************************)
\* occupancy[i] == 1 for a Python index (a negative index counts from the end)
OccAt(occ, line, i) ==
  IF i < 0 THEN (i + OccupancyLen(line)) \in occ ELSE i \in occ

\* the blocks ahead: expected_path[current_idx + 1 : current_idx + 1 + n]
BlocksAhead(t, n) ==
  IF t.expected_path = <<>> \/ ~InSeq(t.current_block, t.expected_path) THEN <<>>
  ELSE LET current_idx == IndexOf(t.expected_path, t.current_block)
       IN Slice(t.expected_path, current_idx + 1, current_idx + 1 + n)

\* some other train of the line is registered on the block
OtherTrainAt(trains, train_id, line, block) ==
  \E o \in DOMAIN trains :
    o # train_id /\ trains[o].line = line /\ trains[o].current_block = block

SeparationViolated(trains, train_id, line, occ) ==
  LET ahead == BlocksAhead(trains[train_id], 2)
  IN \E i \in 1..Len(ahead) :
       /\ ahead[i] - 1 < OccupancyLen(line)
       /\ OccAt(occ, line, ahead[i] - 1)
       /\ OtherTrainAt(trains, train_id, line, ahead[i])

\* ResumeAuthority issuing the fallback authority whatever the static data
ResumeAuthority_Fallback(t1, static_data, complete_path) ==
  IF IsPathError(complete_path) THEN [t |-> t1, ret |-> FALSE, exc |-> TRUE]
  ELSE [t |-> [t1 EXCEPT !.commanded_authority = SEPARATION_FALLBACK],
        ret |-> FALSE, exc |-> FALSE]

\* the resume branch of _check_train_separation for an En Route train
ResumeAuthority(t1, static_data, complete_path) ==
  IF IsPathError(complete_path) THEN [t |-> t1, ret |-> FALSE, exc |-> TRUE]
  ELSE IF static_data.readable /\ complete_path # <<>>
       THEN [t |-> [t1 EXCEPT !.commanded_authority =
                      MetersToYards(SumLengths(static_data,
                        Slice(complete_path,
                              Max(IndexOf(complete_path, t1.current_block), 0),
                              Len(complete_path))))],
             ret |-> FALSE, exc |-> FALSE]
       ELSE [t |-> [t1 EXCEPT !.commanded_authority = SEPARATION_FALLBACK],
             ret |-> FALSE, exc |-> FALSE]

SeparationResume(t, static_data) ==
  IF t.route # <<>> /\ t.current_leg_index < Len(t.route)
  THEN ResumeAuthority([t EXCEPT !.separation_stopped = FALSE,
                                 !.commanded_speed = t.scheduled_speed],
                       static_data,
                       _calculate_complete_block_path(
                         t.current_block, t.route[t.current_leg_index + 1], t.line))
  ELSE [t |-> [t EXCEPT !.separation_stopped = FALSE,
                        !.commanded_speed = t.scheduled_speed],
        ret |-> FALSE, exc |-> FALSE]

_check_train_separation(trains, train_id, occ, static_data) ==
  LET t == trains[train_id]
  IN IF SeparationViolated(trains, train_id, t.line, occ)
     THEN [t |-> IF t.separation_stopped THEN t
                 ELSE [t EXCEPT !.commanded_speed = 0, !.commanded_authority = 0,
                                !.separation_stopped = TRUE],
           ret |-> TRUE, exc |-> FALSE]
     ELSE IF ~InSeq(t.current_block, t.expected_path)
          THEN [t |-> t, ret |-> FALSE, exc |-> FALSE]
     ELSE IF ~t.separation_stopped THEN [t |-> t, ret |-> FALSE, exc |-> FALSE]
     ELSE IF t.state = "En Route" THEN SeparationResume(t, static_data)
     ELSE [t |-> [t EXCEPT !.separation_stopped = FALSE], ret |-> FALSE, exc |-> FALSE]

\* the two bits of the light of a light block, <<>> when the array is too short
LightBits(lts, line, block) ==
  LET bit_idx == IndexOf(light_blocks(line), block) * 2
  IN IF bit_idx + 1 >= Len(lts) THEN <<>> ELSE <<lts[bit_idx + 1], lts[bit_idx + 2]>>

IsLightBlock(line, block) == InSeq(block, light_blocks(line))

RedAhead(t, lts) ==
  LET ahead == BlocksAhead(t, 3)
  IN \E i \in 1..Len(ahead) :
       IsLightBlock(t.line, ahead[i]) /\ LightBits(lts, t.line, ahead[i]) = <<1, 1>>

\* a Yellow light met by the loop before it returns on a Red one (or at all)
YellowSeen(t, lts) ==
  LET ahead == BlocksAhead(t, 3)
  IN \E i \in 1..Len(ahead) :
       /\ IsLightBlock(t.line, ahead[i])
       /\ LightBits(lts, t.line, ahead[i]) = <<1, 0>>
       /\ \A j \in 1..(i - 1) :
            ~(IsLightBlock(t.line, ahead[j])
              /\ LightBits(lts, t.line, ahead[j]) = <<1, 1>>)

_check_traffic_lights_ahead(t, lts) ==
  IF t.expected_path = <<>> \/ ~InSeq(t.current_block, t.expected_path)
  THEN [t |-> t, ret |-> FALSE, exc |-> FALSE]
  ELSE LET tw == IF YellowSeen(t, lts) THEN [t EXCEPT !.yellow_light_warned = TRUE]
                 ELSE t
       IN IF RedAhead(t, lts)
          THEN [t |-> IF tw.red_light_stopped THEN tw
                      ELSE [tw EXCEPT !.commanded_speed = 0,
                                      !.commanded_authority = 0,
                                      !.red_light_stopped = TRUE],
                ret |-> TRUE, exc |-> FALSE]
          ELSE [t |-> IF tw.red_light_stopped
                      THEN [tw EXCEPT !.red_light_stopped = FALSE,
                                      !.yellow_light_warned = FALSE]
                      ELSE tw,
                ret |-> FALSE, exc |-> FALSE]

(***************************************************************************)
(* Dispatch state machine                                                  *)
(* A handler result is [t |-> train record, exc |-> an exception left it]. *)
(***************************************************************************)
\* The speed computation works on floats; the model keeps times in seconds,
\* distances in feet, the discriminant in hundredths, its root in tenths, the
\* cruise velocity in tenths of ft/s and the speed in thousandths of a mph.
\* A result is [abort |-> the dispatch is given up, speed |-> thousandths].
DefaultSpeed == [abort |-> FALSE, speed |-> MilliMph(DEFAULT_SPEED)]

\* time of day of datetime.now() at clock 0, in seconds
DayStart == 23 * 3600 + 57 * 60

\* timedelta(days=1) in seconds
OneDay == 24 * 3600

\* hour, minute = map(int, arrival_time_str.split(":")); <<>> when it raises
ParseArrival(arrival_time_str) ==
  CASE arrival_time_str = "00:00" -> <<0, 0>>
    [] arrival_time_str = "23:58" -> <<23, 58>>
    [] arrival_time_str = "23:59" -> <<23, 59>>
    [] arrival_time_str = "24:00" -> <<24, 0>>
    [] OTHER -> <<>>

\* now.replace(hour, minute, second=0, microsecond=0) raises ValueError
ReplaceRaises(hm) == hm = <<>> \/ hm[1] \notin 0..23 \/ hm[2] \notin 0..59

\* (arrival - now).total_seconds(), the arrival moved to the next day when it
\* is in the past
SecondsUntil(arrival, time_of_day) ==
  IF arrival < time_of_day THEN arrival + OneDay - time_of_day
  ELSE arrival - time_of_day

time_available(hm, clock) ==
  SecondsUntil(hm[1] * 3600 + hm[2] * 60, (DayStart + clock) % OneDay)

\* total_distance_ft: the yard plus the blocks after the first of the path
total_distance_ft(static_data, complete_path) ==
  ((YARD_DISTANCE * 100
    + (SumLengths(static_data, SubSeq(complete_path, 2, Len(complete_path)))
       * 109361) \div 1000)
   * FEET_PER_YARD) \div 100

\* A = 1 / (2 * accel) + 1 / (2 * decel), in hundred-thousandths
QuadraticA == 10000000 \div (2 * accel) + 10000000 \div (2 * decel)

\* discriminant = B**2 - 4 * A * C with B = -time_available, in hundredths
Discriminant(T, C) == 100 * T * T - 4 * ((C * QuadraticA) \div 1000)

RECURSIVE SqrtBetween(_, _, _)
\* the largest r of lo..hi with r * r <= n
SqrtBetween(n, lo, hi) ==
  IF lo >= hi THEN lo
  ELSE IF ((lo + hi + 1) \div 2) * ((lo + hi + 1) \div 2) <= n
       THEN SqrtBetween(n, (lo + hi + 1) \div 2, hi)
       ELSE SqrtBetween(n, lo, (lo + hi + 1) \div 2 - 1)

\* discriminant ** 0.5, in tenths, for a discriminant in hundredths
SquareRoot(n, T) == SqrtBetween(n, 0, 10 * T)

\* the sanity check of the computed speed
SpeedInRange(optimal_speed) ==
  IF optimal_speed <= 0 \/ optimal_speed > MilliMph(MAX_SPEED) THEN DefaultSpeed
  ELSE [abort |-> FALSE, speed |-> optimal_speed]

\* SmallerRoot leaving out the root of the discriminant
SmallerRoot_Vertex(T, root) == ((10 * T) * 100000) \div (2 * QuadraticA)

\* cruise_velocity_fps = (-B - discriminant**0.5) / (2 * A), in tenths
SmallerRoot(T, root) == ((10 * T - root) * 100000) \div (2 * QuadraticA)

\* optimal_speed = cruise_velocity_fps * 0.681818
FpsToMph(cruise_velocity_fps) == (cruise_velocity_fps * FPS_TO_MPH) \div 10000

SpeedFromDiscriminant(T, discriminant) ==
  IF discriminant >= 0
  THEN SpeedInRange(FpsToMph(SmallerRoot(T, SquareRoot(discriminant, T))))
  ELSE DefaultSpeed

\* the computation once the route is expanded
SpeedForPath(T, static_data, complete_path) ==
  IF IsPathError(complete_path) THEN DefaultSpeed
  ELSE IF ~(static_data.readable /\ complete_path # <<>>)
       THEN [abort |-> TRUE, speed |-> 0]
       ELSE IF T > 0
            THEN SpeedFromDiscriminant(
                   T, Discriminant(T, total_distance_ft(static_data, complete_path)))
            ELSE DefaultSpeed

\* the computation once the arrival time is parsed
SpeedForArrival(hm, t, static_data, clock) ==
  IF ReplaceRaises(hm) THEN DefaultSpeed
  ELSE SpeedForPath(time_available(hm, clock), static_data,
                    _expand_route_to_complete_path(t.route, t.line))

\* optimal_speed of _handle_dispatching_state
OptimalSpeed(t, static_data, clock) ==
  IF t.arrival_time = "" THEN DefaultSpeed
  ELSE SpeedForArrival(ParseArrival(t.arrival_time), t, static_data, clock)

\* the per-leg path computation of the dispatch debug loop raises
RECURSIVE RouteLegRaises(_, _, _)
RouteLegRaises(prev_block, route, line) ==
  IF route = <<>> THEN FALSE
  ELSE \/ IsPathError(_calculate_complete_block_path(prev_block, Head(route), line))
       \/ RouteLegRaises(Head(route), Tail(route), line)

\* DispatchAuthority taking the yard distance off the leg
DispatchAuthority_LessYard(static_data, complete_path) ==
  MetersToYards(SumLengths(static_data,
                           Slice(complete_path, 1, Len(complete_path) - 1)))
  + AUTHORITY_BUFFER
  - YARD_DISTANCE

\* authority of the initial dispatch
DispatchAuthority(static_data, complete_path) ==
  YARD_DISTANCE
  + MetersToYards(SumLengths(static_data,
                             Slice(complete_path, 1, Len(complete_path) - 1)))
  + AUTHORITY_BUFFER

\* the first leg once the speed and the path of the leg are computed
DispatchLeg(t, static_data, optimal_speed, next_station_block, complete_path) ==
  IF IsPathError(complete_path) \/ RouteLegRaises(t.current_block, t.route, t.line)
  THEN [t |-> t, exc |-> TRUE]
  ELSE IF ~(static_data.readable /\ complete_path # <<>>)
       THEN [t |-> t, exc |-> FALSE]
       ELSE [t |-> [t EXCEPT
                      !.commanded_speed = optimal_speed,
                      !.commanded_authority =
                         DispatchAuthority(static_data, complete_path),
                      !.state = "En Route",
                      !.current_leg_index = 0,
                      !.next_station_block = next_station_block,
                      !.scheduled_speed = optimal_speed,
                      !.expected_path = complete_path],
             exc |-> FALSE]

\* the dispatch once the speed computation has returned
DispatchAtSpeed(t, static_data, optimal) ==
  IF optimal.abort THEN [t |-> t, exc |-> FALSE]
  ELSE DispatchLeg(t, static_data, optimal.speed, t.route[1],
                   _calculate_complete_block_path(t.current_block, t.route[1],
                                                  t.line))

_handle_dispatching_state(t, static_data, clock) ==
  IF t.route = <<>> THEN [t |-> t, exc |-> FALSE]
  ELSE DispatchAtSpeed(t, static_data, OptimalSpeed(t, static_data, clock))

_handle_enroute_state(t, clock) ==
  IF t.current_block = t.next_station_block
  THEN [t |-> [t EXCEPT !.state = "At Station",
                        !.dwell_start_time = clock,
                        !.current_station =
                           IF StationOfBlock(t.line, t.next_station_block) # ""
                           THEN StationOfBlock(t.line, t.next_station_block)
                           ELSE @],
        exc |-> FALSE]
  ELSE [t |-> t, exc |-> FALSE]

_handle_at_station_state(t) ==
  [t |-> [t EXCEPT !.state = "Dwelling", !.commanded_speed = 0,
                   !.commanded_authority = 0],
   exc |-> FALSE]

\* authority of a leg issued after the dwell
DwellAuthority(static_data, complete_path, current_block) ==
  LET idx == Max(IndexOf(complete_path, current_block), 0)
  IN (IF current_block = 0 THEN YARD_DISTANCE ELSE 0)
     + MetersToYards(SumLengths(static_data,
                                Slice(complete_path, idx, Len(complete_path))))

\* the next leg once its path is computed
NextLeg(t, static_data, current_leg_index, next_station_block, complete_path) ==
  IF IsPathError(complete_path) THEN [t |-> t, exc |-> TRUE]
  ELSE IF ~(static_data.readable /\ complete_path # <<>>)
       THEN [t |-> t, exc |-> FALSE]
       ELSE [t |-> [t EXCEPT
                      !.current_leg_index = current_leg_index,
                      !.next_station_block = next_station_block,
                      !.commanded_authority =
                         DwellAuthority(static_data, complete_path,
                                        t.current_block),
                      !.expected_path = complete_path,
                      !.commanded_speed = t.scheduled_speed,
                      !.state = "En Route",
                      !.dwell_start_time = None],
             exc |-> FALSE]

\* _handle_dwelling_state leaving the dwell without waiting
_handle_dwelling_state_NoWait(t, static_data, clock) ==
  IF t.dwell_start_time = None THEN [t |-> t, exc |-> FALSE]
  ELSE IF t.current_leg_index >= Len(t.route) - 1
       THEN [t |-> [t EXCEPT !.state = "Arrived", !.commanded_speed = 0,
                             !.commanded_authority = 0],
             exc |-> FALSE]
  ELSE NextLeg(t, static_data, t.current_leg_index + 1,
               t.route[t.current_leg_index + 2],
               _calculate_complete_block_path(
                 t.current_block, t.route[t.current_leg_index + 2], t.line))

_handle_dwelling_state(t, static_data, clock) ==
  IF t.dwell_start_time = None THEN [t |-> t, exc |-> FALSE]
  ELSE IF clock - t.dwell_start_time < DWELL_TIME THEN [t |-> t, exc |-> FALSE]
  ELSE IF t.current_leg_index >= Len(t.route) - 1
       THEN [t |-> [t EXCEPT !.state = "Arrived", !.commanded_speed = 0,
                             !.commanded_authority = 0],
             exc |-> FALSE]
  ELSE NextLeg(t, static_data, t.current_leg_index + 1,
               t.route[t.current_leg_index + 2],
               _calculate_complete_block_path(
                 t.current_block, t.route[t.current_leg_index + 2], t.line))

\* StateHandler beginning the dwell in the step that finds the arrival
StateHandler_FallThrough(t, state, static_data, clock) ==
  CASE state = "Dispatching" -> _handle_dispatching_state(t, static_data, clock)
    [] state = "En Route" ->
         IF t.current_block = t.next_station_block
         THEN _handle_at_station_state(_handle_enroute_state(t, clock).t)
         ELSE _handle_enroute_state(t, clock)
    [] state = "At Station" -> _handle_at_station_state(t)
    [] state = "Dwelling" -> _handle_dwelling_state(t, static_data, clock)
    [] OTHER -> [t |-> t, exc |-> FALSE]

\* the state-machine handler chosen by the state read at entry
StateHandler(t, state, static_data, clock) ==
  CASE state = "Dispatching" -> _handle_dispatching_state(t, static_data, clock)
    [] state = "En Route" -> _handle_enroute_state(t, clock)
    [] state = "At Station" -> _handle_at_station_state(t)
    [] state = "Dwelling" -> _handle_dwelling_state(t, static_data, clock)
    [] OTHER -> [t |-> t, exc |-> FALSE]

\* the rest of the step once the light check has returned lt
AfterLightCheck(lt, state, static_data, clock) ==
  IF lt.ret THEN [t |-> lt.t, exc |-> FALSE]
  ELSE StateHandler(lt.t, state, static_data, clock)

\* the rest of the step once the separation check has returned sep
AfterSeparationCheck(sep, t, lts, static_data, clock) ==
  IF sep.exc \/ sep.ret THEN [t |-> sep.t, exc |-> sep.exc]
  ELSE AfterLightCheck(_check_traffic_lights_ahead(sep.t, lts[t.line]),
                       t.state, static_data, clock)

_process_train_state_machine(trains, train_id, occ, lts, static_data, clock) ==
  IF trains[train_id].state \notin {"Arrived", "Dwelling", "At Station"}
  THEN AfterSeparationCheck(
         _check_train_separation(trains, train_id,
                                 occ[trains[train_id].line], static_data),
         trains[train_id], lts, static_data, clock)
  ELSE StateHandler(trains[train_id], trains[train_id].state, static_data, clock)

RECURSIVE RunStateMachines(_, _, _, _, _, _)
\* the loop after the step of the first train has returned r
RunRest(r, trains, ids, occ, lts, static_data, clock) ==
  IF r.exc THEN [trains |-> [trains EXCEPT ![Head(ids)] = r.t], exc |-> TRUE]
  ELSE RunStateMachines([trains EXCEPT ![Head(ids)] = r.t], Tail(ids), occ, lts,
                        static_data, clock)

\* the loop over list(self.active_trains.items()); an exception ends it
RunStateMachines(trains, ids, occ, lts, static_data, clock) ==
  IF ids = <<>> THEN [trains |-> trains, exc |-> FALSE]
  ELSE RunRest(_process_train_state_machine(trains, Head(ids), occ, lts,
                                            static_data, clock),
               trains, ids, occ, lts, static_data, clock)

(***************************************************************************)
(* PLC cycle                                                               *)
(***************************************************************************)
\* the ids of the trains of a line, in registry order
LineTrains(trains, ids, line) == SelectSeq(ids, LAMBDA id : trains[id].line = line)

_determine_green_switch_position(switch_block, route, current_block, destination) ==
  CASE switch_block = 13 ->
         IF \E i \in 1..Len(route) : route[i] < 13 THEN 1 ELSE 0
    [] switch_block = 28 ->
         IF \E i \in 1..Len(route) : route[i] > 100 THEN 1 ELSE 0
    [] switch_block = 57 ->
         IF destination = "Yard" \/ (route # <<>> /\ route[Len(route)] < 58)
         THEN 1 ELSE 0
    [] switch_block = 63 -> IF current_block = 0 THEN 1 ELSE 0
    [] switch_block = 77 ->
         IF destination \in {"Poplar", "Castle Shannon"} THEN 0 ELSE 1
    [] switch_block = 85 ->
         IF current_block = 100 \/ current_block >= 96 THEN 1 ELSE 0
    [] OTHER -> 0

_determine_red_switch_position(switch_block, route, current_block, destination) ==
  CASE switch_block = 9 ->
         IF destination = "Yard" \/ (route # <<>> /\ route[Len(route)] = 0)
         THEN 1 ELSE 0
    [] switch_block = 16 ->
         IF current_block < 16 /\ route # <<>> /\ route[1] <= 16 THEN 1 ELSE 0
    [] switch_block = 27 ->
         IF \E i \in 1..Len(route) : route[i] >= 76 THEN 1 ELSE 0
    [] switch_block \in {33, 38, 44, 52} ->
         IF \E i \in 1..Len(route) : 66 <= route[i] /\ route[i] <= 76 THEN 1 ELSE 0
    [] OTHER -> 0

DesiredPosition(t, switch_block) ==
  IF t.line = "Green"
  THEN _determine_green_switch_position(switch_block, t.route, t.current_block,
                                        t.destination)
  ELSE _determine_red_switch_position(switch_block, t.route, t.current_block,
                                      t.destination)

\* path distance of a train to a switch ahead of it, Inf when it does not qualify
SwitchDistance(t, switch_block) ==
  IF t.expected_path = <<>> \/ ~InSeq(switch_block, t.expected_path) THEN Inf
  ELSE LET current_idx == IndexOf(t.expected_path, t.current_block)
           switch_idx == IndexOf(t.expected_path, switch_block)
       IN IF current_idx >= 0 /\ switch_idx > current_idx
             /\ switch_idx - current_idx <= SWITCH_LOOKOUT
          THEN switch_idx - current_idx ELSE Inf

\* closest_train of the scan loop: the first train, in registry order, among
\* those at the smallest distance; 0 when no train qualifies
ClosestTrain(trains, lineIds, switch_block) ==
  LET q == {i \in 1..Len(lineIds) : SwitchDistance(trains[lineIds[i]], switch_block) < Inf}
  IN IF q = {} THEN 0
     ELSE lineIds[CHOOSE i \in q : \A j \in q :
            LET di == SwitchDistance(trains[lineIds[i]], switch_block)
                dj == SwitchDistance(trains[lineIds[j]], switch_block)
            IN di < dj \/ (di = dj /\ i <= j)]

\* value of one switch after _set_switches_for_approaching_trains
NewSwitch(trains, ids, line, old, idx) ==
  LET switch_block == switch_blocks(line)[idx]
      lineIds == LineTrains(trains, ids, line)
  IN IF line = "Green" /\ switch_block = 63
     THEN IF \E i \in 1..Len(lineIds) :
               /\ trains[lineIds[i]].current_block = 0
               /\ InSeq(63, trains[lineIds[i]].expected_path)
          THEN 1 ELSE old[idx]
     ELSE LET closest == ClosestTrain(trains, lineIds, switch_block)
          IN IF closest = 0 THEN old[idx]
             ELSE DesiredPosition(trains[closest], switch_block)

_set_switches_for_approaching_trains(trains, ids, line, old) ==
  [idx \in 1..Len(old) |->
     IF idx > Len(switch_blocks(line)) THEN old[idx]
     ELSE NewSwitch(trains, ids, line, old, idx)]

\* raw block distances of the trains of the line at or beyond a light
LightDistances(trains, line, light_block) ==
  {trains[id].current_block - light_block :
     id \in {i \in DOMAIN trains : /\ trains[i].line = line
                                   /\ trains[i].current_block - light_block >= 0}}

SetMin(S) == CHOOSE x \in S : \A y \in S : x <= y

\* occupancy entries counted by the fallback of the light grading
BlocksAheadOccupied(occ, line, light_block) ==
  Cardinality({c \in (light_block + 1)..(Min(light_block + 4, OccupancyLen(line)) - 1) :
                 c \in occ})

\* GradeLight turning Red on a single occupied entry
GradeLight_OneOccupied(trains, line, occ, light_block) ==
  LET ds == LightDistances(trains, line, light_block)
  IN IF ds # {}
     THEN LET min_distance == SetMin(ds)
          IN IF min_distance <= LIGHT_DISTANCE_RED THEN <<1, 1>>
             ELSE IF min_distance <= LIGHT_DISTANCE_YELLOW THEN <<1, 0>>
             ELSE IF min_distance <= LIGHT_DISTANCE_GREEN THEN <<0, 1>>
             ELSE <<0, 0>>
     ELSE LET n == BlocksAheadOccupied(occ, line, light_block)
          IN IF n >= 1 THEN <<1, 1>> ELSE <<0, 0>>

\* the two bits chosen for a light
GradeLight(trains, line, occ, light_block) ==
  LET ds == LightDistances(trains, line, light_block)
  IN IF ds # {}
     THEN LET min_distance == SetMin(ds)
          IN IF min_distance <= LIGHT_DISTANCE_RED THEN <<1, 1>>
             ELSE IF min_distance <= LIGHT_DISTANCE_YELLOW THEN <<1, 0>>
             ELSE IF min_distance <= LIGHT_DISTANCE_GREEN THEN <<0, 1>>
             ELSE <<0, 0>>
     ELSE LET n == BlocksAheadOccupied(occ, line, light_block)
          IN IF n >= 2 THEN <<1, 1>> ELSE IF n = 1 THEN <<1, 0>> ELSE <<0, 0>>

_control_traffic_lights(trains, line, occ, old) ==
  [k \in 1..Len(old) |->
     LET idx == (k - 1) \div 2
     IN IF idx >= Len(light_blocks(line)) \/ idx * 2 + 1 >= Len(old) THEN old[k]
        ELSE GradeLight(trains, line, occ, light_blocks(line)[idx + 1])[((k - 1) % 2) + 1]]

\* a train of the line is on the crossing or within the close distance
TrainNearGate(trains, line, gate_block) ==
  \E id \in DOMAIN trains :
    /\ trains[id].line = line
    /\ Abs(gate_block - trains[id].current_block) <= GATE_CLOSE_DISTANCE

\* the gate may open: no timer, or the delay since the recorded time has passed
GateDelayPassed(timers, line, gate_block, clock) ==
  \/ <<line, gate_block>> \notin DOMAIN timers
  \/ clock - timers[<<line, gate_block>>] >= GATE_OPEN_DELAY

\* NewGate flipping a gate that waits for its delay
NewGate_Toggle(trains, line, timers, clock, old, idx) ==
  LET gate_block == gate_blocks(line)[idx]
  IN IF TrainNearGate(trains, line, gate_block) THEN 0
     ELSE IF GateDelayPassed(timers, line, gate_block, clock) THEN 1
     ELSE 1 - old[idx]

NewGate(trains, line, timers, clock, old, idx) ==
  LET gate_block == gate_blocks(line)[idx]
  IN IF TrainNearGate(trains, line, gate_block) THEN 0
     ELSE IF GateDelayPassed(timers, line, gate_block, clock) THEN 1
     ELSE old[idx]

\* the timer of a gate after the scan: None when no entry is kept
NewGateTimer(trains, line, timers, clock, gate_block) ==
  LET key == <<line, gate_block>>
  IN IF TrainNearGate(trains, line, gate_block)
     THEN IF key \in DOMAIN timers THEN timers[key] ELSE clock
     ELSE IF key \in DOMAIN timers /\ clock - timers[key] < GATE_OPEN_DELAY
          THEN timers[key] ELSE None

_control_crossing_gates(trains, line, timers, clock, old) ==
  [idx \in 1..Len(old) |->
     IF idx > Len(gate_blocks(line)) THEN old[idx]
     ELSE NewGate(trains, line, timers, clock, old, idx)]

\* self.gate_timers after the gate control of both lines
GateTimersAfter(trains, timers, clock, gts) ==
  LET keys == {<<l, gate_blocks(l)[i]>> : l \in Lines, i \in 1..2}
      live == {k \in keys :
                 /\ IndexOf(gate_blocks(k[1]), k[2]) < Len(gts[k[1]])
                 /\ NewGateTimer(trains, k[1], timers, clock, k[2]) # None}
      kept == {k \in DOMAIN timers :
                 k \in keys => IndexOf(gate_blocks(k[1]), k[2]) >= Len(gts[k[1]])}
  IN [k \in live \cup kept |->
        IF k \in live THEN NewGateTimer(trains, k[1], timers, clock, k[2])
        ELSE timers[k]]

FailureAhead(t, fails) ==
  LET ahead == BlocksAhead(t, 3)
  IN \E i \in 1..Len(ahead) :
       ahead[i] < FailuresLen(t.line) /\ ahead[i] \in fails

\* HandleFailure restoring the scheduled speed in every state of the train
HandleFailure_AnyState(t, fails) ==
  IF t.expected_path = <<>> \/ ~InSeq(t.current_block, t.expected_path) THEN t
  ELSE IF FailureAhead(t, fails)
       THEN IF t.failure_stopped THEN t
            ELSE [t EXCEPT !.commanded_speed = 0, !.commanded_authority = 0,
                           !.failure_stopped = TRUE]
       ELSE IF ~t.failure_stopped THEN t
            ELSE [t EXCEPT !.failure_stopped = FALSE,
                           !.commanded_speed = t.scheduled_speed]

\* _handle_failures_for_line applied to one train of the line
HandleFailure(t, fails) ==
  IF t.expected_path = <<>> \/ ~InSeq(t.current_block, t.expected_path) THEN t
  ELSE IF FailureAhead(t, fails)
       THEN IF t.failure_stopped THEN t
            ELSE [t EXCEPT !.commanded_speed = 0, !.commanded_authority = 0,
                           !.failure_stopped = TRUE]
       ELSE IF ~t.failure_stopped THEN t
            ELSE IF t.state = "En Route"
                 THEN [t EXCEPT !.failure_stopped = FALSE,
                                !.commanded_speed = t.scheduled_speed]
                 ELSE [t EXCEPT !.failure_stopped = FALSE]

_handle_failures_for_line(trains, fails) ==
  [id \in DOMAIN trains |-> HandleFailure(trains[id], fails[trains[id].line])]

RECURSIVE SortedIds(_)
SortedIds(S) ==
  IF S = {} THEN <<>> ELSE <<SetMin(S)>> \o SortedIds(S \ {SetMin(S)})

\* "{prefix}-Train" written by _write_train_commands
TrainCommands(trains, line) ==
  LET ids == SortedIds({id \in DOMAIN trains : trains[id].line = line})
  IN [speed |-> [i \in 1..Len(ids) |-> trains[ids[i]].commanded_speed],
      authority |-> [i \in 1..Len(ids) |-> trains[ids[i]].commanded_authority]]

(***************************************************************************)
(* One control tick (_automatic_control_cycle)                             *)
(***************************************************************************)
\* hour and minute that strftime("%H:%M") prints at a time of the model
ClockText(clock) ==
  <<((DayStart + clock) % OneDay) \div 3600,
    (((DayStart + clock) % OneDay) % 3600) \div 60>>

\* the two digit groups of the dispatch_time of a schedule row
DispatchDigits(dispatch_time) ==
  CASE dispatch_time = "00:00" -> <<0, 0>>
    [] dispatch_time = "23:57" -> <<23, 57>>
    [] dispatch_time = "23:58" -> <<23, 58>>

\* current_time >= dispatch_time, a comparison of two strings dd:dd
TimeReached(current_time, dispatch_time) ==
  \/ current_time[1] > dispatch_time[1]
  \/ current_time[1] = dispatch_time[1] /\ current_time[2] >= dispatch_time[2]

\* registry and insertion order after _dispatch_from_schedule has looked up
\* the route
ScheduledRecord(trains, ids, train_id, line, destination, arrival_time, route) ==
  IF route = <<>>
  THEN [trains |-> trains, order |-> ids]
  ELSE IF train_id \notin DOMAIN trains
       THEN [trains |-> trains @@
                        (train_id :> NewTrain(line, destination, arrival_time, route)),
             order |-> Append(ids, train_id)]
       ELSE [trains |->
               [trains EXCEPT ![train_id] =
                  [@ EXCEPT !.line = line, !.destination = destination,
                            !.current_block = 0, !.commanded_speed = 0,
                            !.commanded_authority = 0, !.state = "Dispatching",
                            !.arrival_time = arrival_time, !.route = route,
                            !.next_station_block = route[1],
                            !.dwell_start_time = None]],
             order |-> ids]

_dispatch_from_schedule(trains, ids, schedule_entry) ==
  ScheduledRecord(trains, ids, schedule_entry.train_id, schedule_entry.line,
                  schedule_entry.destination_station, schedule_entry.arrival_time,
                  route_lookup_via_station(schedule_entry.line, "Yard",
                                           schedule_entry.destination_station))

\* EntryDue not looking at the state of a train that exists
EntryDue_AnyState(current_entry, clock) ==
  TimeReached(ClockText(clock), DispatchDigits(current_entry.dispatch_time))

\* the current entry is dispatched by this tick
EntryDue(current_entry, clock) ==
  /\ TimeReached(ClockText(clock), DispatchDigits(current_entry.dispatch_time))
  /\ \/ current_entry.train_id \notin DOMAIN active_trains
     \/ active_trains[current_entry.train_id].state = "Arrived"

WithIndex(dispatched, index) ==
  [trains |-> dispatched.trains, order |-> dispatched.order, index |-> index]

\* process_schedule_tick dispatching whether or not the schedule is running
process_schedule_tick_Always ==
  IF /\ schedule_index < Len(active_schedule)
     /\ EntryDue(active_schedule[schedule_index + 1], now)
  THEN WithIndex(_dispatch_from_schedule(active_trains, order,
                                         active_schedule[schedule_index + 1]),
                 schedule_index + 1)
  ELSE [trains |-> active_trains, order |-> order, index |-> schedule_index]

\* registry, insertion order and schedule_index after process_schedule_tick
process_schedule_tick ==
  IF /\ running
     /\ schedule_index < Len(active_schedule)
     /\ EntryDue(active_schedule[schedule_index + 1], now)
  THEN WithIndex(_dispatch_from_schedule(active_trains, order,
                                         active_schedule[schedule_index + 1]),
                 schedule_index + 1)
  ELSE [trains |-> active_trains, order |-> order, index |-> schedule_index]

\* active_trains after position ingestion of both lines
Ingested ==
  _update_train_positions(
    _update_train_positions(process_schedule_tick.trains,
                            process_schedule_tick.order, occupancy["Green"], "Green"),
    process_schedule_tick.order, occupancy["Red"], "Red")

\* result of the state-machine loop of the tick
Advanced ==
  RunStateMachines(Ingested, process_schedule_tick.order, occupancy, lights,
                   static_file, now)

\* gate_seen after a scan at the given time
GateSeenAfter(trains, seen, clock) ==
  LET keys == {<<l, gate_blocks(l)[i]>> : l \in Lines, i \in 1..2}
      present == {k \in keys : TrainNearGate(trains, k[1], k[2])}
  IN [k \in present \cup DOMAIN seen |-> IF k \in present THEN clock ELSE seen[k]]

\* the PLC cycle of the tick: switches, lights and gates of both lines
PlcCycle(trains) ==
  /\ switches' = [l \in Lines |->
       _set_switches_for_approaching_trains(trains, process_schedule_tick.order,
                                            l, switches[l])]
  /\ lights' = [l \in Lines |->
       _control_traffic_lights(trains, l, occupancy[l], lights[l])]
  /\ gates' = [l \in Lines |->
       _control_crossing_gates(trains, l, gate_timers, now, gates[l])]
  /\ gate_timers' = GateTimersAfter(trains, gate_timers, now, gates)
  /\ gate_seen' = GateSeenAfter(trains, gate_seen, now)
  /\ order' = process_schedule_tick.order
  /\ schedule_index' = process_schedule_tick.index
  /\ observed' = io_file
  /\ UNCHANGED <<occupancy, failures, static_file, now, running, active_schedule>>

\* PlcCycleAndCommands writing the commands held before the failure handling
PlcCycleAndCommands_EarlyWrite(trains, final) ==
  /\ active_trains' = final
  /\ PlcCycle(trains)
  /\ train_cmd' = [l \in Lines |-> TrainCommands(trains, l)]
  /\ last' = "tick"
  /\ UNCHANGED <<io_file, pc, tick_start, track_data>>

\* the PLC cycle and the command write; final is the registry after the
\* failure handling of the PLC cycle
PlcCycleAndCommands(trains, final) ==
  /\ active_trains' = final
  /\ PlcCycle(trains)
  /\ train_cmd' = [l \in Lines |-> TrainCommands(final, l)]
  /\ last' = "tick"
  /\ UNCHANGED <<io_file, pc, tick_start, track_data>>

\* a path error in the state-machine loop ends the tick
TickAborted(sm) ==
  /\ active_trains' = sm.trains
  /\ order' = process_schedule_tick.order
  /\ schedule_index' = process_schedule_tick.index
  /\ observed' = io_file
  /\ last' = "abort"
  /\ UNCHANGED <<switches, lights, gates, occupancy, failures, train_cmd,
                 gate_timers, static_file, now, gate_seen, running,
                 active_schedule, io_file, pc, tick_start, track_data>>

\* the tick after the state-machine loop has returned sm
CycleAfter(sm) ==
  IF sm.exc
  THEN TickAborted(sm)
  ELSE PlcCycleAndCommands(sm.trains,
                          _handle_failures_for_line(sm.trains, failures))

\* the tick that finds a snapshot unreadable does nothing
TickSkipped ==
  /\ last' = "skip"
  /\ observed' = io_file
  /\ tick_start' = <<active_trains, switches, lights, gates, train_cmd>>
  /\ UNCHANGED <<active_trains, order, switches, lights, gates, occupancy,
                 failures, train_cmd, gate_timers, static_file, now, gate_seen,
                 running, active_schedule, schedule_index, io_file, pc,
                 track_data>>

\* a tick whose reads and writes of the snapshot meet no other writer
_automatic_control_cycle ==
  /\ pc = "top"
  /\ IF io_file # "complete" THEN TickSkipped ELSE CycleAfter(Advanced)

(***************************************************************************)
(* The snapshot file on disk.  Every writer opens track_io.json with mode  *)
(* "w", which truncates it, and the dumped text reaches the disk before    *)
(* the file is closed; a reader that finds the file empty or partial gets  *)
(* no data.  Two writers at a time are not modelled.                       *)
(***************************************************************************)
\* the track model reads the snapshot, replaces the occupancy of a line and
\* opens the file for writing; a failed read drops the write
OccupancyWriteOpens(line, occ) ==
  /\ io_file = "complete"
  /\ occ # occupancy[line]
  /\ occupancy' = [occupancy EXCEPT ![line] = occ]
  /\ io_file' = "empty"
  /\ last' = "env"
  /\ UNCHANGED <<active_trains, order, switches, lights, gates, failures,
                 train_cmd, gate_timers, static_file, now, gate_seen, running,
                 active_schedule, schedule_index, pc, observed, tick_start,
                 track_data>>

\* position of the control loop once the file it was writing is closed
AfterClose(position) ==
  CASE position = "write_io" -> "commands"
    [] position = "write_cmd" -> "top"
    [] OTHER -> position

\* the writer that holds the file open dumps part of the text, or the rest
\* of it and closes the file
WriteProceeds ==
  /\ io_file # "complete"
  /\ io_file' = IF io_file = "empty" THEN "partial" ELSE "complete"
  /\ pc' = IF io_file = "partial" THEN AfterClose(pc) ELSE pc
  /\ last' = "env"
  /\ UNCHANGED <<active_trains, order, switches, lights, gates, occupancy,
                 failures, train_cmd, gate_timers, static_file, now, gate_seen,
                 running, active_schedule, schedule_index, observed,
                 tick_start, track_data>>

\* the track model reads the snapshot for the switches, gates, lights and
\* train commands
read_train_data_from_json ==
  /\ observed' = io_file
  /\ observed' # observed
  /\ last' = "env"
  /\ UNCHANGED <<active_trains, order, switches, lights, gates, occupancy,
                 failures, train_cmd, gate_timers, static_file, now, gate_seen,
                 running, active_schedule, schedule_index, io_file, pc,
                 tick_start, track_data>>

\* the tick up to _write_track_io, which opens the snapshot for writing
ScanAndOpen(trains, final) ==
  /\ active_trains' = final
  /\ PlcCycle(trains)
  /\ io_file' = "empty"
  /\ pc' = "write_io"
  /\ tick_start' = <<active_trains, switches, lights, gates, train_cmd>>
  /\ last' = "scan"
  /\ UNCHANGED <<train_cmd, track_data>>

ScanAfter(sm) ==
  IF sm.exc
  THEN TickAborted(sm)
  ELSE ScanAndOpen(sm.trains, _handle_failures_for_line(sm.trains, failures))

\* the first part of a tick: the reads, the schedule, the ingestion, the
\* state machines and the PLC cycle
TickScan ==
  /\ pc = "top"
  /\ IF io_file # "complete" THEN TickSkipped ELSE ScanAfter(Advanced)

\* _write_train_commands: it reads the snapshot again and returns when the
\* read gives nothing
_write_train_commands ==
  /\ pc = "commands"
  /\ observed' = io_file
  /\ IF io_file = "complete"
     THEN /\ train_cmd' = [l \in Lines |-> TrainCommands(active_trains, l)]
          /\ io_file' = "empty"
          /\ pc' = "write_cmd"
          /\ last' = "tick"
     ELSE /\ pc' = "top"
          /\ last' = "partial"
          /\ UNCHANGED <<train_cmd, io_file>>
  /\ UNCHANGED <<active_trains, order, switches, lights, gates, occupancy,
                 failures, gate_timers, static_file, now, gate_seen, running,
                 active_schedule, schedule_index, tick_start, track_data>>

(***************************************************************************)
(* The tick with its read of the snapshot and its write apart: track_data  *)
(* is read at the top, changed in memory by the PLC cycle and dumped whole *)
(* by _write_track_io.  The writes themselves are taken as one step here.  *)
(***************************************************************************)
\* track_data after _execute_plc_cycle
Scanned(trains) ==
  [switches |-> [l \in Lines |->
     _set_switches_for_approaching_trains(trains, process_schedule_tick.order,
                                          l, switches[l])],
   lights |-> [l \in Lines |->
     _control_traffic_lights(trains, l, occupancy[l], lights[l])],
   gates |-> [l \in Lines |->
     _control_crossing_gates(trains, l, gate_timers, now, gates[l])],
   occupancy |-> occupancy,
   failures |-> failures]

\* the tick from _read_track_io up to the call of _write_track_io
ScanInMemory(trains, final) ==
  /\ active_trains' = final
  /\ track_data' = Scanned(trains)
  /\ gate_timers' = GateTimersAfter(trains, gate_timers, now, gates)
  /\ gate_seen' = GateSeenAfter(trains, gate_seen, now)
  /\ order' = process_schedule_tick.order
  /\ schedule_index' = process_schedule_tick.index
  /\ observed' = io_file
  /\ pc' = "scanned"
  /\ tick_start' = <<active_trains, switches, lights, gates, train_cmd>>
  /\ last' = "scan"
  /\ UNCHANGED <<switches, lights, gates, occupancy, failures, train_cmd,
                 static_file, now, running, active_schedule, io_file>>

ScanInMemoryAfter(sm) ==
  IF sm.exc
  THEN TickAborted(sm)
  ELSE ScanInMemory(sm.trains, _handle_failures_for_line(sm.trains, failures))

TickReadsAndScans ==
  /\ pc = "top"
  /\ IF io_file # "complete" THEN TickSkipped ELSE ScanInMemoryAfter(Advanced)

\* _write_track_io(track_data), then _write_train_commands on what it wrote
_write_track_io ==
  /\ pc = "scanned"
  /\ switches' = track_data.switches
  /\ lights' = track_data.lights
  /\ gates' = track_data.gates
  /\ occupancy' = track_data.occupancy
  /\ failures' = track_data.failures
  /\ train_cmd' = [l \in Lines |-> TrainCommands(active_trains, l)]
  /\ pc' = "top"
  /\ last' = "tick"
  /\ UNCHANGED <<active_trains, order, gate_timers, static_file, now, gate_seen,
                 running, active_schedule, schedule_index, io_file, observed,
                 tick_start, track_data>>

(***************************************************************************)
(* Readers of the command arrays and of the gate array                     *)
(***************************************************************************)
\* the pair that the track model echoes into the feedback record
\* {prefix}_train_{n}, for each n it has a pair for
write_to_train_model_json(commanded) ==
  [n \in 1..Len(commanded.speed) |-> <<commanded.speed[n], commanded.authority[n]>>]

\* gate_statuses of the track model: the status it gives each crossing
write_to_block_manager(gates_array) ==
  [i \in 1..Len(gates_array) |-> IF gates_array[i] = 0 THEN "Open" ELSE "Closed"]

\* the gate column of the controller's own table
_update_gates_display(gates_array) ==
  [i \in 1..Len(gates_array) |-> IF gates_array[i] = 1 THEN "Up" ELSE "Down"]

(***************************************************************************)
(* Specifications.  The environment (dispatch requests, the track model    *)
(* rewriting occupancy, maintenance failures, the clock) is bounded per    *)
(* specification; the control tick is the same in all of them.             *)
(***************************************************************************)
OccupancyValues(blocks) ==
  {S \in SUBSET {b - 1 : b \in blocks} : Cardinality(S) <= MaxOccupied}

ManualDispatch(ids, dests) ==
  \E id \in ids, dest \in dests : _manual_dispatch(id, "Green", dest, "")

\* dispatch requests that give an arrival time
TimedDispatch(ids, dests, arrivals) ==
  \E id \in ids, dest \in dests, arrival \in arrivals :
    _manual_dispatch(id, "Green", dest, arrival)

\* dispatch requests for trains that are not registered yet
FirstDispatch(ids, dests) ==
  \E id \in ids, dest \in dests :
    id \notin DOMAIN active_trains /\ _manual_dispatch(id, "Green", dest, "")

TrackModelMoves(blocks) ==
  \E occ \in OccupancyValues(blocks) : write_occupancy_to_json("Green", occ)

FailureChange(blocks) ==
  \E block \in blocks, failure \in {0, 1} : _maint_set_failure("Green", block, failure)

StaticDataChange == \E file \in StaticFiles : write_static_data(file)

\* the clock is advanced only while something reads it: a dwell, a gate
\* timer, or a dispatch with an arrival time
ClockAdvance(limit) ==
  /\ \/ \E id \in DOMAIN active_trains :
          active_trains[id].state \in {"At Station", "Dwelling"}
     \/ \E id \in DOMAIN active_trains :
          /\ active_trains[id].state = "Dispatching"
          /\ active_trains[id].arrival_time # ""
     \/ DOMAIN gate_timers # {}
  /\ Elapse(ClockStep, limit)

Tick == _automatic_control_cycle

\* two trains on the first leg out of the yard (blocks 0, 63, 64, 65)
Next ==
  \/ ManualDispatch({1, 2}, {"Glenbury"})
  \/ TrackModelMoves({64, 65})
  \/ FailureChange({65})
  \/ ClockAdvance(MaxTime)
  \/ Tick

Spec == Init /\ [][Next]_vars

\* one train over two legs, with every kind of static data file
NextStatic ==
  \/ ManualDispatch({1}, {"Dormont"})
  \/ TrackModelMoves({64, 65})
  \/ StaticDataChange
  \/ ClockAdvance(MaxTime)
  \/ Tick

SpecStatic == Init /\ [][NextStatic]_vars

\* one train up to the light of block 76, with blocks beyond it occupied
NextSignal ==
  \/ FirstDispatch({1}, {"Mt. Lebanon"})
  \/ TrackModelMoves({65, 73, 78, 79})
  \/ FailureChange({76})
  \/ ClockAdvance(MaxTimeLong)
  \/ Tick

SpecSignal == Init /\ [][NextSignal]_vars

\* two trains up to the switch of block 77, bound for either branch
NextSwitch ==
  \/ FirstDispatch({1}, {"Mt. Lebanon"})
  \/ FirstDispatch({2}, {"Poplar"})
  \/ TrackModelMoves({65, 73})
  \/ ClockAdvance(MaxTimeLong)
  \/ Tick

SpecSwitch == Init /\ [][NextSwitch]_vars

\* one train that strays to the crossing of block 108
NextGate ==
  \/ ManualDispatch({1}, {"Glenbury"})
  \/ TrackModelMoves({65, 103})
  \/ ClockAdvance(MaxTime)
  \/ Tick

SpecGate == Init /\ [][NextGate]_vars

\* one train over its whole journey of two legs, to the arrival at Dormont
NextJourney ==
  \/ ManualDispatch({1}, {"Dormont"})
  \/ TrackModelMoves({65, 73})
  \/ ClockAdvance(MaxTimeLong)
  \/ Tick

SpecJourney == Init /\ [][NextJourney]_vars

\* arrival times typed by the dispatcher: after midnight, within the next
\* minutes, not a time of day, not a time at all
ArrivalTimes == {"00:00", "23:58", "23:59", "24:00", "soon"}

\* one train dispatched with an arrival time to a near and to a far station
NextSpeed ==
  \/ TimedDispatch({1}, {"Glenbury", "Central"}, ArrivalTimes)
  \/ ManualDispatch({1}, {"Glenbury"})
  \/ TrackModelMoves({65})
  \/ StaticDataChange
  \/ ClockAdvance(MaxTimeLong)
  \/ Tick

SpecSpeed == Init /\ [][NextSpeed]_vars

\* one train sent from the yard to any station of the Green line
NextRoutes ==
  \/ ManualDispatch({1}, SeqToSet(station_names("Green")))
  \/ TrackModelMoves({65})
  \/ ClockAdvance(MaxTime)
  \/ Tick

SpecRoutes == Init /\ [][NextRoutes]_vars

\* one train on the first leg, with the control loop and the track model
\* reading and writing the snapshot file step by step
NextChannel ==
  \/ ManualDispatch({1}, {"Glenbury"})
  \/ \E occ \in OccupancyValues({64, 65}) : OccupancyWriteOpens("Green", occ)
  \/ WriteProceeds
  \/ read_train_data_from_json
  \/ TickScan
  \/ _write_train_commands

SpecChannel == Init /\ [][NextChannel]_vars

\* the track model reports failures of the given blocks
TrackModelFailures(blocks) ==
  \E failed \in SUBSET (blocks \X {0, 2}) :
    Cardinality(failed) <= 1 /\ write_failures_to_json("Green", failed)

\* one train on the first leg, with failures reported by the track model for
\* a block of the leg and for a block far from it
NextFailures ==
  \/ FirstDispatch({1}, {"Glenbury"})
  \/ TrackModelMoves({64, 65})
  \/ TrackModelFailures({22, 65})
  \/ ClockAdvance(MaxTime)
  \/ Tick

SpecFailures == Init /\ [][NextFailures]_vars

\* one train on the first leg, with the blocks around the light of block 62
\* reported occupied
NextOccupancy ==
  \/ FirstDispatch({1}, {"Glenbury"})
  \/ TrackModelMoves({63, 64, 66})
  \/ Tick

SpecOccupancy == Init /\ [][NextOccupancy]_vars

\* dispatch requests and track model reports for the Red line
RedDispatch(ids, dests) ==
  \E id \in ids, dest \in dests : _manual_dispatch(id, "Red", dest, "")

RedTrackModelMoves(blocks) ==
  \E occ \in OccupancyValues(blocks) : write_occupancy_to_json("Red", occ)

\* one train on each line: out of the yard to the first Red stations, and to
\* Dormont by way of Glenbury on the Green line
NextBothLines ==
  \/ RedDispatch({1}, {"Shadyside", "Herron Ave"})
  \/ ManualDispatch({2}, {"Dormont"})
  \/ RedTrackModelMoves({7, 9})
  \/ TrackModelMoves({65})
  \/ ClockAdvance(MaxTime)
  \/ Tick

SpecBothLines == Init /\ [][NextBothLines]_vars

\* the track model reports one train, on one of the given blocks
SingleTrainMoves(blocks) ==
  \E b \in blocks : write_occupancy_to_json("Green", {b - 1})

\* one train through three dwells into the main loop, sent back to Glenbury
\* from there: its way back runs 150, 28 .. 62, 63
NextLoop ==
  \/ ManualDispatch({1}, {"Overbrook", "Glenbury"})
  \/ SingleTrainMoves({65, 73, 77, 101, 60})
  \/ ClockAdvance(MaxTimeLong + DWELL_TIME)
  \/ Tick

SpecLoop == Init /\ [][NextLoop]_vars

\* the maintenance panel sets a Green switch by its block number
SwitchChange(blocks) ==
  \E block \in blocks, state \in {0, 1} :
    _maint_set_switch("Green", IndexOf(switch_blocks("Green"), block) + 1, state)

\* one train on the first leg; the track model and the maintenance panel
\* write the snapshot between the read and the write of a tick
NextSnapshot ==
  \/ FirstDispatch({1}, {"Glenbury"})
  \/ TrackModelMoves({64, 65})
  \/ FailureChange({65})
  \/ SwitchChange({77})
  \/ TickReadsAndScans
  \/ _write_track_io

SpecSnapshot == Init /\ [][NextSnapshot]_vars

\* a row of a schedule file for the Green line
ScheduleEntry(train_id, destination_station, dispatch_time, arrival_time) ==
  [train_id |-> train_id, line |-> "Green",
   destination_station |-> destination_station,
   dispatch_time |-> dispatch_time, arrival_time |-> arrival_time]

\* schedule files: train 1 to Glenbury and on to Dormont, both rows due at
\* once or the second one due a minute later
Schedules ==
  {<<ScheduleEntry(1, "Glenbury", "00:00", ""),
     ScheduleEntry(1, "Dormont", dispatch_time, "")>> :
     dispatch_time \in {"23:57", "23:58"}}

\* the operator loads the first schedule file
LoadSchedule ==
  \E schedule \in Schedules :
    active_schedule = <<>> /\ load_schedule_file(schedule)

\* one train run by a schedule, or by hand, to Glenbury and on to Dormont
NextSchedule ==
  \/ LoadSchedule
  \/ _start_automatic
  \/ _stop_automatic
  \/ ManualDispatch({1}, {"Glenbury", "Dormont"})
  \/ TrackModelMoves({65})
  \/ ClockAdvance(MaxTimeLong)
  \/ Tick

SpecSchedule == Init /\ [][NextSchedule]_vars

(***************************************************************************)
(* Properties                                                              *)
(***************************************************************************)
Held(t) == t.commanded_speed = 0 /\ t.commanded_authority = 0

\* the part of expected_path that starts at the current block
LegAhead(t) ==
  IF InSeq(t.current_block, t.expected_path)
  THEN Slice(t.expected_path, IndexOf(t.expected_path, t.current_block),
             Len(t.expected_path))
  ELSE <<>>

\* C1 Separation enforcement: at the end of every tick, a train that has
\* another train of its line on one of the next two blocks of its path is
\* commanded speed 0 and authority 0 and carries separation_stopped.
SeparationEnforced ==
  last = "tick" =>
    \A id \in DOMAIN active_trains :
      LET t == active_trains[id]
      IN SeparationViolated(active_trains, id, t.line, occupancy[t.line])
         => Held(t) /\ t.separation_stopped

\* a stop cause of the train that still applies in the state after the step
CauseApplies(id) ==
  LET t2 == active_trains'[id]
  IN \/ SeparationViolated(active_trains', id, t2.line, occupancy'[t2.line])
     \/ FailureAhead(t2, failures'[t2.line])
     \/ RedAhead(t2, lights[t2.line]) /\ RedAhead(t2, lights'[t2.line])

FlagCount(t) ==
  (IF t.separation_stopped THEN 1 ELSE 0) + (IF t.red_light_stopped THEN 1 ELSE 0)
  + (IF t.failure_stopped THEN 1 ELSE 0)

\* C2 Independent stop causes: a train held by more than one cause stays at
\* speed 0 and authority 0 at the end of a tick in which one of the causes
\* still applies.
IndependentStopCauses ==
  [][\A id \in DOMAIN active_trains :
       LET t == active_trains[id]
           t2 == active_trains'[id]
       IN (/\ last' = "tick"
           /\ t.state = "En Route" /\ t2.state = "En Route"
           /\ t2.expected_path = t.expected_path
           /\ Held(t) /\ FlagCount(t) >= 2
           /\ CauseApplies(id))
          => Held(t2)]_vars

\* C3 Failure response: at the end of a tick an En Route train with a failed
\* block among the next three blocks of its path is at speed 0, authority 0
\* and failure_stopped; once no failure is ahead any more, the next tick
\* leaves it at its scheduled speed.
FailureResponse ==
  [][last' = "tick" =>
       \A id \in DOMAIN active_trains' :
         LET t2 == active_trains'[id]
         IN /\ (t2.state = "En Route" /\ FailureAhead(t2, failures'[t2.line]))
                 => Held(t2) /\ t2.failure_stopped
            /\ (/\ id \in DOMAIN active_trains
                /\ active_trains[id].state = "En Route"
                /\ active_trains[id].failure_stopped
                /\ t2.state = "En Route"
                /\ InSeq(t2.current_block, t2.expected_path)
                /\ ~FailureAhead(t2, failures'[t2.line]))
                 => t2.commanded_speed = t2.scheduled_speed]_vars

\* C4 Signal response: an En Route train that has a Red light among the next
\* three blocks of its path through a whole tick ends the tick at speed 0,
\* authority 0 and red_light_stopped; a Yellow light alone leaves speed and
\* authority as they were.
SignalResponse ==
  [][last' = "tick" =>
       \A id \in DOMAIN active_trains :
         LET t == active_trains[id]
             t2 == active_trains'[id]
             steady == /\ t.state = "En Route" /\ t2.state = "En Route"
                       /\ t2.expected_path = t.expected_path
         IN /\ (/\ steady
                /\ RedAhead(t2, lights[t2.line])
                /\ RedAhead(t2, lights'[t2.line]))
                 => Held(t2) /\ t2.red_light_stopped
            /\ (/\ steady
                /\ YellowSeen(t2, lights[t2.line])
                /\ ~RedAhead(t2, lights[t2.line])
                /\ FlagCount(t) = 0
                /\ ~SeparationViolated(active_trains', id, t2.line,
                                       occupancy'[t2.line])
                /\ ~FailureAhead(t2, failures'[t2.line]))
                 => /\ t2.commanded_speed = t.commanded_speed
                    /\ t2.commanded_authority = t.commanded_authority]_vars

\* C5 Path invariant as claimed: at the end of a tick every En Route train is
\* on a block of its expected_path.
PathInvariant ==
  last = "tick" =>
    \A id \in DOMAIN active_trains :
      active_trains[id].state = "En Route"
        => InSeq(active_trains[id].current_block, active_trains[id].expected_path)

\* C5 amended: a tick leaves an En Route train off its expected_path only if
\* the train was En Route before and either stays where it was or took a
\* block that the occupancy array reports; dispatch and leg resume always
\* leave the train on its path.
PathInvariantAmended ==
  [][last' = "tick" =>
       \A id \in DOMAIN active_trains :
         LET t == active_trains[id]
             t2 == active_trains'[id]
         IN (t2.state = "En Route"
             /\ ~InSeq(t2.current_block, t2.expected_path))
            => /\ t.state = "En Route"
               /\ t2.expected_path = t.expected_path
               /\ \/ t2.current_block = t.current_block
                  \/ (t2.current_block - 1) \in occupancy[t2.line]]_vars

\* an En Route train ends a tick on a reported block that is not on its path
PathDeviationWitness ==
  /\ last = "tick"
  /\ \E id \in DOMAIN active_trains :
       /\ active_trains[id].state = "En Route"
       /\ ~InSeq(active_trains[id].current_block, active_trains[id].expected_path)
       /\ (active_trains[id].current_block - 1)
            \in occupancy[active_trains[id].line]

\* the trains that have a switch block ahead within the lookout
SwitchCandidates(line, switch_block) ==
  {id \in DOMAIN active_trains :
     /\ active_trains[id].line = line
     /\ SwitchDistance(active_trains[id], switch_block) < Inf}

\* the candidate at the smallest distance, the smaller id on a tie
SwitchOwner(line, switch_block) ==
  CHOOSE id \in SwitchCandidates(line, switch_block) :
    \A o \in SwitchCandidates(line, switch_block) :
      LET di == SwitchDistance(active_trains[id], switch_block)
          do == SwitchDistance(active_trains[o], switch_block)
      IN di < do \/ (di = do /\ id <= o)

\* C6 Switch ownership: after a scan, every switch that some train has ahead
\* within the 5-block lookout is in the position required by the closest of
\* those trains, the smaller id deciding a tie.
SwitchOwnership ==
  last = "tick" =>
    \A line \in Lines :
      \A idx \in 1..Len(switch_blocks(line)) :
        LET switch_block == switch_blocks(line)[idx]
        IN SwitchCandidates(line, switch_block) # {}
           => switches[line][idx] =
                DesiredPosition(active_trains[SwitchOwner(line, switch_block)],
                                switch_block)

\* C7 Gate hysteresis: a gate is closed by the tick that finds a train on or
\* near the crossing, and a closed gate is opened only by a tick at least the
\* open delay after the last tick that found such a train.
GateHysteresis ==
  [][last' = "tick" =>
       \A line \in Lines :
         \A idx \in 1..Len(gate_blocks(line)) :
           LET gate_block == gate_blocks(line)[idx]
               key == <<line, gate_block>>
           IN /\ TrainNearGate(active_trains', line, gate_block)
                   => gates'[line][idx] = 0
              /\ (gates[line][idx] = 0 /\ gates'[line][idx] = 1
                  /\ key \in DOMAIN gate_seen)
                   => now - gate_seen[key] >= GATE_OPEN_DELAY]_vars

\* a train of the line is at or beyond the light within the Red band
TrainInRedBand(line, light_block) ==
  \E id \in DOMAIN active_trains :
    /\ active_trains[id].line = line
    /\ active_trains[id].current_block - light_block \in 0..LIGHT_DISTANCE_RED

NoTrainBeyond(line, light_block) ==
  \A id \in DOMAIN active_trains :
    active_trains[id].line = line => active_trains[id].current_block < light_block

FormulaAuthority(t) ==
  LET leg == LegAhead(t)
  IN (IF t.current_block = 0 THEN YARD_DISTANCE ELSE 0)
     + MetersToYards(SumLengths(static_file, Slice(leg, 0, Len(leg) - 1)))
     + AUTHORITY_BUFFER

\* a step assigns the train a commanded authority other than 0
AuthorityAssigned(id) ==
  /\ active_trains'[id].commanded_authority # 0
  /\ \/ id \notin DOMAIN active_trains
     \/ active_trains[id].commanded_authority
          # active_trains'[id].commanded_authority

\* C9 Authority formula: a commanded authority other than 0 is the length of
\* the leg from the current block up to but excluding the destination block,
\* plus the buffer, plus 200 when the train is in the yard.
AuthorityFormula ==
  [][\A id \in DOMAIN active_trains' :
       AuthorityAssigned(id)
         => active_trains'[id].commanded_authority
              = FormulaAuthority(active_trains'[id])]_vars

\* C10 Missing topology data: a commanded authority other than 0 is assigned
\* only when the static data lists the length of every block of the leg.
MissingTopologyRefused ==
  [][\A id \in DOMAIN active_trains' :
       AuthorityAssigned(id)
         => /\ static_file.readable
            /\ \A b \in SeqToSet(LegAhead(active_trains'[id])) \ {0} :
                 b \in DOMAIN static_file.lengths]_vars

\* C11 Authority sign: in every reachable state the commanded authority of
\* every train is greater than or equal to 0.
AuthorityNonNegative ==
  \A id \in DOMAIN active_trains : active_trains[id].commanded_authority >= 0

\* a train holds an authority issued by the dispatch, and one issued after a
\* dwell for its second leg
AuthorityIssuedWitness ==
  /\ last = "tick"
  /\ \E id \in DOMAIN active_trains :
       /\ active_trains[id].state = "En Route"
       /\ active_trains[id].current_leg_index = 1
       /\ active_trains[id].commanded_authority > 0

\* the state changes a tick may make
TickTransitions ==
  {<<"Dispatching", "En Route">>, <<"En Route", "At Station">>,
   <<"At Station", "Dwelling">>, <<"Dwelling", "En Route">>,
   <<"Dwelling", "Arrived">>}

\* C12 State-machine shape: a tick changes the state of a train only along
\* Dispatching -> En Route, En Route -> At Station, At Station -> Dwelling,
\* Dwelling -> En Route (the leg index moving to the next leg) and
\* Dwelling -> Arrived (on the last leg); outside a tick the state changes
\* only to Dispatching, by a dispatch request.
StateMachineShape ==
  [][\A id \in DOMAIN active_trains' :
       IF id \notin DOMAIN active_trains
       THEN active_trains'[id].state = "Dispatching" /\ last' = "env"
       ELSE LET t == active_trains[id]
                t2 == active_trains'[id]
            IN \/ t2.state = t.state
               \/ /\ last' = "env"
                  /\ t2.state = "Dispatching"
               \/ /\ last' # "env"
                  /\ <<t.state, t2.state>> \in TickTransitions
                  /\ (t.state = "Dwelling" /\ t2.state = "En Route")
                       => t2.current_leg_index = t.current_leg_index + 1
                  /\ t2.state = "Arrived"
                       => t.current_leg_index >= Len(t.route) - 1]_vars

\* a train has gone through every state of the journey and arrived on its
\* second leg
JourneyCompleteWitness ==
  /\ last = "tick"
  /\ \E id \in DOMAIN active_trains :
       /\ active_trains[id].state = "Arrived"
       /\ active_trains[id].current_leg_index = 1
       /\ active_trains[id].current_block = 73

\* C13 Held sub-state: a tick that finds a stop flag set on a train and leaves
\* one set does not advance the train: its state and current_leg_index are
\* unchanged.
HeldDoesNotAdvance ==
  [][last' # "env" =>
       \A id \in DOMAIN active_trains :
         LET t == active_trains[id]
             t2 == active_trains'[id]
         IN (FlagCount(t) > 0 /\ FlagCount(t2) > 0)
            => /\ t2.state = t.state
               /\ t2.current_leg_index = t.current_leg_index]_vars

\* a tick takes the train out of Dwelling only after the dwell duration,
\* counted from the recorded start
LeavesAfterDwell(t, t2) ==
  /\ (t.state = "Dwelling" /\ t2.state # "Dwelling")
       => /\ t.dwell_start_time # None
          /\ now - t.dwell_start_time >= DWELL_TIME
  /\ (/\ t.state = "Dwelling" /\ t.dwell_start_time # None
      /\ now - t.dwell_start_time < DWELL_TIME)
       => t2.state = "Dwelling"

\* C14 Dwell timing as claimed: the tick that moves a train from At Station
\* to Dwelling records the time of that tick as the dwell start, and a tick
\* takes the train out of Dwelling only when the dwell duration has elapsed
\* since the recorded start.
DwellTiming ==
  [][last' # "env" =>
       \A id \in DOMAIN active_trains :
         LET t == active_trains[id]
             t2 == active_trains'[id]
         IN /\ (t.state = "At Station" /\ t2.state = "Dwelling")
                 => t2.dwell_start_time = now
            /\ LeavesAfterDwell(t, t2)]_vars

\* C14 amended: the tick that moves a train from En Route to At Station
\* records the time of that tick as the dwell start, the tick from At Station
\* to Dwelling keeps it, and a tick takes the train out of Dwelling only when
\* the dwell duration has elapsed since the recorded start.
DwellTimingAmended ==
  [][last' # "env" =>
       \A id \in DOMAIN active_trains :
         LET t == active_trains[id]
             t2 == active_trains'[id]
         IN /\ (t.state = "En Route" /\ t2.state = "At Station")
                 => t2.dwell_start_time = now
            /\ (t.state = "At Station" /\ t2.state = "Dwelling")
                 => t2.dwell_start_time = t.dwell_start_time
            /\ LeavesAfterDwell(t, t2)]_vars

\* a train has left a dwell for its second leg
DwellCompleteWitness ==
  /\ last = "tick"
  /\ now >= DWELL_TIME
  /\ \E id \in DOMAIN active_trains :
       /\ active_trains[id].state = "En Route"
       /\ active_trains[id].current_leg_index = 1
       /\ active_trains[id].dwell_start_time = None

\* length in yards of the rest of the leg, from the current block to the
\* station block, both included
RestOfLegYards(t) == MetersToYards(SumLengths(static_file, LegAhead(t)))

NoStopCause(id) ==
  LET t == active_trains[id]
  IN /\ ~SeparationViolated(active_trains, id, t.line, occupancy[t.line])
     /\ ~FailureAhead(t, failures[t.line])
     /\ ~RedAhead(t, lights[t.line])

\* the registry a tick taken in the current state would leave
TickRegistry ==
  IF Advanced.exc THEN Advanced.trains
  ELSE _handle_failures_for_line(Advanced.trains, failures)

\* a tick taken in the current state changes neither the registry nor the
\* lights: with the environment at rest every later tick finds this state
TickAtRest ==
  /\ ~Advanced.exc
  /\ TickRegistry = active_trains
  /\ lights = [l \in Lines |->
       _control_traffic_lights(Advanced.trains, l, occupancy[l], lights[l])]

\* C16 Red-light release: an En Route train released from a red-light stop
\* (no flag left, no Red light, failure or train ahead) does not stay at
\* speed 0 and authority 0: the ticks that follow change its commands.
RedLightRelease ==
  last = "tick" =>
    \A id \in DOMAIN active_trains :
      LET t == active_trains[id]
      IN (/\ t.state = "En Route"
          /\ InSeq(t.current_block, t.expected_path)
          /\ t.current_block # t.next_station_block
          /\ FlagCount(t) = 0 /\ NoStopCause(id)
          /\ Held(t))
         => ~TickAtRest

\* C17 Failure release: an En Route train that a tick has released from a
\* failure stop (scheduled speed restored, authority still 0, no flag and no
\* stop cause left) gets its authority recomputed by the next tick to the
\* distance to the station of its leg, without any other event.
FailureRelease ==
  last = "tick" =>
    \A id \in DOMAIN active_trains :
      LET t == active_trains[id]
      IN (/\ t.state = "En Route"
          /\ InSeq(t.current_block, t.expected_path)
          /\ t.current_block # t.next_station_block
          /\ FlagCount(t) = 0 /\ NoStopCause(id)
          /\ static_file.readable
          /\ t.commanded_speed = t.scheduled_speed
          /\ t.commanded_authority = 0)
         => /\ TickRegistry[id].commanded_authority > 0
            /\ TickRegistry[id].commanded_authority = RestOfLegYards(t)

\* a speed of the registry as a cruise velocity, in tenths of ft/s
CruiseOf(speed) == (speed * 10000) \div FPS_TO_MPH

\* A*v^2 + B*v + C in feet, for v in tenths of ft/s, B = -T and C in feet
Quadratic(v, T, C) ==
  (((v * v) \div 100) * QuadraticA) \div 100000 - (T * v) \div 10 + C

\* v solves the quadratic, up to the rounding of the model, and lies on the
\* side of the smaller root (2*A*v <= T)
IsSmallerRoot(v, T, C) ==
  /\ Abs(Quadratic(v, T, C)) <= T \div 2 + 5
  /\ (2 * QuadraticA * v) \div 1000000 <= T + 1

\* the quadratic has no root, or its smaller root is above 100 mph
\* (146.6 ft/s)
NoUsableRoot(T, C) ==
  \/ 100 * T * T < 4 * (((C + 1) * (QuadraticA + 2)) \div 1000) + 1
  \/ /\ Quadratic(1465, T, C) >= -5
     /\ (2 * QuadraticA * 1465) \div 1000000 <= T

\* the request gives no arrival time the computation can use
NoSchedule(t) ==
  \/ t.arrival_time = ""
  \/ ReplaceRaises(ParseArrival(t.arrival_time))
  \/ IsPathError(_expand_route_to_complete_path(t.route, t.line))
  \/ time_available(ParseArrival(t.arrival_time), now) <= 0

\* C18 Dispatch speed: a tick that completes a dispatch commands, and keeps
\* as scheduled_speed, the smaller positive root of A*v^2 + B*v + C = 0 when
\* that root exists and lies in (0, 100] mph, and otherwise exactly 30 mph;
\* the speed is never negative or zero.
DispatchSpeed ==
  [][last' = "tick" =>
       \A id \in DOMAIN active_trains :
         LET t == active_trains[id]
             t2 == active_trains'[id]
         IN (t.state = "Dispatching" /\ t2.state = "En Route")
            => /\ t2.scheduled_speed = t2.commanded_speed
               /\ t2.commanded_speed > 0
               /\ t2.commanded_speed <= MilliMph(MAX_SPEED)
               /\ IF NoSchedule(t)
                  THEN t2.commanded_speed = MilliMph(DEFAULT_SPEED)
                  ELSE LET T == time_available(ParseArrival(t.arrival_time), now)
                           C == total_distance_ft(static_file,
                                  _expand_route_to_complete_path(t.route, t.line))
                       IN \/ IsSmallerRoot(CruiseOf(t2.commanded_speed), T, C)
                          \/ /\ NoUsableRoot(T, C)
                             /\ t2.commanded_speed = MilliMph(DEFAULT_SPEED)]_vars

\* a train sent to Central for an arrival at midnight runs at a computed
\* speed that is not the fallback
ComputedSpeedWitness ==
  /\ last = "tick"
  /\ \E id \in DOMAIN active_trains :
       LET t == active_trains[id]
       IN /\ t.state = "En Route" /\ t.destination = "Central"
          /\ t.arrival_time = "00:00"
          /\ t.commanded_speed = t.scheduled_speed
          /\ t.commanded_speed > MilliMph(DEFAULT_SPEED)

\* the route of the train leaves the section 63..100 in front of the branch
\* of block 77, so that its path crosses a branch
CrossesBranch(t) ==
  t.line = "Green" /\ t.route # <<>> /\ t.route[Len(t.route)] \notin 63..100

\* C19 Loop-back resolution: for every train bound for a Green station whose
\* route crosses a branch, expanding the route returns a block path in which
\* 77 is immediately followed by 101 and 150 by 28, on every leg.
LoopBackResolution ==
  \A id \in DOMAIN active_trains :
    LET t == active_trains[id]
        p == _expand_route_to_complete_path(t.route, t.line)
    IN CrossesBranch(t)
       => /\ ~IsPathError(p)
          /\ \A i \in 1..(Len(p) - 1) :
               /\ p[i] = 77 => p[i + 1] = 101
               /\ p[i] = 150 => p[i + 1] = 28

\* the arrays a second scan of the current state would write
RescanSwitches ==
  [l \in Lines |->
     _set_switches_for_approaching_trains(active_trains, order, l, switches[l])]

RescanLights ==
  [l \in Lines |->
     _control_traffic_lights(active_trains, l, occupancy[l], lights[l])]

RescanGates(clock) ==
  [l \in Lines |->
     _control_crossing_gates(active_trains, l, gate_timers, clock, gates[l])]

\* the clock readings of a second scan: at once, or one step later
RescanTimes == {now, now + ClockStep}

\* C20 Scan idempotence as claimed: after a scan, a second scan with the same
\* train positions, occupancy and failures leaves the switch, light and gate
\* arrays as they are.
ScanIdempotence ==
  last = "tick" =>
    \A clock \in RescanTimes :
      /\ RescanSwitches = switches
      /\ RescanLights = lights
      /\ RescanGates(clock) = gates

\* C20 amended: the second scan leaves the switch and light arrays as they
\* are; it leaves the gate array as it is when it reads the same clock, and
\* later it changes a gate only by opening one that is down and whose open
\* delay has run out since the recorded time.
ScanIdempotenceAmended ==
  last = "tick" =>
    /\ RescanSwitches = switches
    /\ RescanLights = lights
    /\ RescanGates(now) = gates
    /\ \A clock \in RescanTimes, l \in Lines : \A idx \in 1..Len(gates[l]) :
         RescanGates(clock)[l][idx] # gates[l][idx]
         => /\ gates[l][idx] = 0 /\ RescanGates(clock)[l][idx] = 1
            /\ <<l, gate_blocks(l)[idx]>> \in DOMAIN gate_timers
            /\ clock - gate_timers[<<l, gate_blocks(l)[idx]>>] >= GATE_OPEN_DELAY

\* a scan has left a gate down for its open delay with no train near it,
\* and a second scan one step later opens it
GateDelayWitness ==
  /\ last = "tick"
  /\ \E l \in Lines : \E idx \in 1..Len(gates[l]) :
       /\ ~TrainNearGate(active_trains, l, gate_blocks(l)[idx])
       /\ gates[l][idx] = 0
       /\ RescanGates(now)[l][idx] = 0
       /\ RescanGates(now + ClockStep)[l][idx] = 1

\* a train that goes through a tick En Route on its path, with no separation
\* stop before the tick and no train ahead of it
RunsLightCheck(id) ==
  LET t == active_trains[id]
      t2 == active_trains'[id]
  IN /\ t.state = "En Route" /\ t2.state = "En Route"
     /\ t2.expected_path = t.expected_path
     /\ InSeq(t2.current_block, t2.expected_path)
     /\ ~t.separation_stopped
     /\ ~SeparationViolated(active_trains', id, t2.line, occupancy[t2.line])

\* C21 Stage order as claimed: signal response acts on the light values
\* computed by the signal grading of the same tick, so a train that ends the
\* tick with a Red light in its three-block window carries red_light_stopped.
StageOrder ==
  [][last' = "tick" =>
       \A id \in DOMAIN active_trains :
         (RunsLightCheck(id)
          /\ RedAhead(active_trains'[id], lights'[active_trains'[id].line]))
         => active_trains'[id].red_light_stopped]_vars

\* C21 amended: the state machines act on the ingested positions; separation
\* enforcement and signal response run inside the state-machine stage, on
\* the lights read at the start of the tick; the scan that follows grades the
\* lights from the positions of this tick and the command write that follows
\* the scan carries the commands left by the failure response.
StageOrderAmended ==
  [][last' = "tick" =>
       /\ \A id \in DOMAIN active_trains :
            LET t == active_trains[id]
                t2 == active_trains'[id]
            IN /\ RunsLightCheck(id)
                    => (t2.red_light_stopped <=> RedAhead(t2, lights[t2.line]))
               /\ (/\ t.state = "En Route" /\ FlagCount(t) = 0
                   /\ t2.current_block = t.next_station_block
                   /\ t2.current_block # t.current_block
                   /\ ~SeparationViolated(active_trains', id, t2.line,
                                          occupancy[t2.line])
                   /\ ~RedAhead([t EXCEPT !.current_block = t2.current_block],
                                lights[t.line]))
                    => t2.state = "At Station"
       /\ lights' = [l \in Lines |->
            _control_traffic_lights(active_trains', l, occupancy[l], lights[l])]
       /\ train_cmd' = [l \in Lines |-> TrainCommands(active_trains', l)]]_vars

\* a tick has graded a light Red in front of an En Route train that its
\* signal response, run before the scan, has not stopped
StaleLightWitness ==
  /\ last = "tick"
  /\ \E id \in DOMAIN active_trains :
       LET t == active_trains[id]
       IN /\ t.state = "En Route" /\ FlagCount(t) = 0
          /\ RedAhead(t, lights[t.line])
          /\ ~Held(t)

\* C22 Atomic snapshot writes: a reader of the shared snapshot file finds the
\* complete old or the complete new content, never an empty or partial file.
AtomicSnapshot == observed = "complete"

\* C23 Skipped tick: a tick in which a read of the snapshot fails is skipped
\* as a whole; it ends with the registry, the switches, the lights, the gates
\* and the commands it started with.  (A train that a dispatch request put
\* into Dispatching while the tick ran was not changed by the tick.)
TickAllOrNothing ==
  last \in {"skip", "partial"} =>
    /\ <<switches, lights, gates, train_cmd>> =
         <<tick_start[2], tick_start[3], tick_start[4], tick_start[5]>>
    /\ \A id \in DOMAIN tick_start[1] :
         \/ active_trains[id] = tick_start[1][id]
         \/ active_trains[id].state = "Dispatching"

\* C24 Single writer of the registry: while a tick is in progress (the
\* control loop is past the top of the tick) no step of another thread
\* writes the train registry; the steps of the tick that are left (the
\* snapshot write and the command write) do not write it either.
SingleWriter == [][pc # "top" => active_trains' = active_trains]_vars

TickKinds == {"tick", "abort", "skip", "scan", "partial"}

\* C25 Cancellation: after automatic mode is stopped the control loop
\* observes the stop at the top of its next tick and exits, so the step that
\* follows a stop made between two ticks is never a tick.
LoopStops == [][(last = "stop" /\ pc = "top") => last' \notin TickKinds]_vars

\* C25 as amended: a tick that runs while automatic mode is stopped
\* dispatches nothing from the schedule: the schedule position stays, no
\* train is added and no Arrived train is sent out again.
StopHoldsSchedule ==
  [][(~running /\ last' \in TickKinds) =>
       /\ schedule_index' = schedule_index
       /\ order' = order
       /\ \A id \in DOMAIN active_trains :
            active_trains[id].state = "Arrived" =>
              active_trains'[id].state = "Arrived"]_vars

\* a tick has run after the stop, with the second row of the schedule due
StoppedScheduleWitness ==
  /\ ~running
  /\ last = "tick"
  /\ schedule_index = 1
  /\ Len(active_schedule) = 2
  /\ EntryDue(active_schedule[2], now)

\* the arrival time of the train is not a time of day
ArrivalUnparsable(t) ==
  t.arrival_time # "" /\ ReplaceRaises(ParseArrival(t.arrival_time))

\* the static data lacks the length of a block of the path of the train, or
\* the path cannot be resolved
TopologyMissing(t, complete_path) ==
  \/ IsPathError(complete_path)
  \/ ~static_file.readable
  \/ \E b \in SeqToSet(complete_path) \ {0} : b \notin DOMAIN static_file.lengths

\* C26 Fail-safe policy: a train whose dispatch meets an error in a tick (an
\* arrival time that cannot be parsed, topology data that is missing, a path
\* that cannot be resolved) ends the tick with commanded speed 0 and
\* commanded authority 0.
FailSafe ==
  [][last' \in TickKinds =>
       \A id \in DOMAIN active_trains :
         (/\ active_trains[id].state = "Dispatching"
          /\ \/ ArrivalUnparsable(active_trains[id])
             \/ TopologyMissing(active_trains[id],
                   _expand_route_to_complete_path(active_trains[id].route,
                                                  active_trains[id].line)))
           => Held(active_trains'[id])]_vars

\* C27 Route not found: a dispatch request whose route cannot be resolved,
\* at station level or when its legs are expanded into blocks, is rejected:
\* every record that a request creates or changes has a route that expands
\* into a block path.
RouteNotFoundRejected ==
  [][last' = "env" =>
       \A id \in DOMAIN active_trains' :
         (id \notin DOMAIN active_trains \/ active_trains'[id] # active_trains[id])
           => /\ active_trains'[id].route # <<>>
              /\ ~IsPathError(_expand_route_to_complete_path(
                                active_trains'[id].route, active_trains'[id].line))]_vars

\* C28 Redispatch: a train in Arrived stays in Arrived with commanded speed 0
\* and authority 0 until a dispatch request, manual or scheduled, is made
\* for it; the request gives it the route from its current station to the
\* new destination.
RedispatchFromStation ==
  [][\A id \in DOMAIN active_trains :
       active_trains[id].state = "Arrived" =>
         \/ active_trains'[id].state = "Arrived" /\ Held(active_trains'[id])
         \/ /\ active_trains'[id].state # "Arrived"
            /\ active_trains'[id].route =
                 route_lookup_via_station(active_trains'[id].line,
                                          active_trains[id].current_station,
                                          active_trains'[id].destination)]_vars

\* the position and station history of a record are kept
HistoryKept(t, t2) ==
  t2.current_block = t.current_block /\ t2.current_station = t.current_station

\* C29 Record persistence: no step removes a train record, and a redispatch
\* of an Arrived train, by a manual request or by the schedule at the top of
\* a tick, leaves current_block and current_station as they were.
RecordPersists ==
  [][/\ DOMAIN active_trains \subseteq DOMAIN active_trains'
     /\ \A id \in DOMAIN active_trains :
          active_trains[id].state = "Arrived" =>
            /\ last' = "env" => HistoryKept(active_trains[id], active_trains'[id])
            /\ HistoryKept(active_trains[id], process_schedule_tick.trains[id])]_vars

\* C30 Gate encoding: every reader of the gate array that a scan has written
\* takes 0 as closed (down) and 1 as open (up), as the controller writes it.
GateEncoding ==
  last = "tick" =>
    \A l \in Lines : \A idx \in 1..Len(gates[l]) :
      /\ gates[l][idx] = 0 <=> write_to_block_manager(gates[l])[idx] = "Closed"
      /\ gates[l][idx] = 0 <=> _update_gates_display(gates[l])[idx] = "Down"

\* some failure bit of a block of the window is set
WindowFailed(t, fails) ==
  \E i \in 1..Len(BlocksAhead(t, 3)) :
    FailureBits(BlocksAhead(t, 3)[i]) \cap fails # {}

\* C31 Failure array layout: with three bits per block in the failure array,
\* a tick stops an En Route train on its path for a failure exactly when a
\* bit of one of the next three blocks of its path is set: a train with such
\* a bit set is failure_stopped at the end of the tick, and a train that the
\* tick has newly failure_stopped has such a bit set.
FailureLayout ==
  [][last' = "tick" =>
       \A id \in DOMAIN active_trains' :
         LET t2 == active_trains'[id]
         IN (t2.state = "En Route" /\ InSeq(t2.current_block, t2.expected_path))
              => /\ WindowFailed(t2, failures[t2.line]) => t2.failure_stopped
                 /\ (t2.failure_stopped /\ id \in DOMAIN active_trains
                     /\ ~active_trains[id].failure_stopped)
                      => WindowFailed(t2, failures[t2.line])]_vars

\* C32 Command delivery: after a tick, the pair of commanded speed and
\* authority that the feedback record of train id t receives is the pair the
\* core computed for train id t, for every active train of the line.
CommandDelivery ==
  last = "tick" =>
    \A id \in DOMAIN active_trains :
      LET echoed == write_to_train_model_json(train_cmd[active_trains[id].line])
      IN /\ id \in DOMAIN echoed
         /\ echoed[id] = <<active_trains[id].commanded_speed,
                           active_trains[id].commanded_authority>>

\* the bits of a light graded on the number of occupied blocks among the
\* three blocks after it, block b being the array entry b - 1 as position
\* ingestion and the separation check read it
GradeByBlocks(occ, line, light_block) ==
  LET n == Cardinality({b \in (light_block + 1)..(light_block + 3) :
                          b - 1 < OccupancyLen(line) /\ (b - 1) \in occ})
  IN IF n >= 2 THEN <<1, 1>> ELSE IF n = 1 THEN <<1, 0>> ELSE <<0, 0>>

\* C33 Occupancy array layout: the occupancy fallback of the signal grading
\* reads the bit of block b at the index at which position ingestion and the
\* separation check read it: a light with no train at or after it is graded,
\* by every tick, on the occupied blocks among the three blocks after it.
OccupancyLayout ==
  [][last' = "tick" =>
       \A l \in Lines : \A idx \in 1..Len(light_blocks(l)) :
         LightDistances(active_trains', l, light_blocks(l)[idx]) = {}
           => <<lights'[l][2 * idx - 1], lights'[l][2 * idx]>> =
                GradeByBlocks(occupancy[l], l, light_blocks(l)[idx])]_vars

\* C34 Block occupancy consistency: at the end of every tick no two trains
\* of the same line are recorded in the same block other than the yard.
BlockConsistency ==
  last = "tick" =>
    \A a \in DOMAIN active_trains : \A b \in DOMAIN active_trains :
      (/\ a # b
       /\ active_trains[a].line = active_trains[b].line
       /\ active_trains[a].current_block = active_trains[b].current_block)
        => active_trains[a].current_block = 0

\* C35 Error containment: a tick in which the advance of a train raises
\* still runs the interlocking scan and the command write: it ends with the
\* lights graded on the registry of the tick and with the commands of every
\* registered train published.
ErrorContained ==
  [][last' \in {"tick", "abort"} =>
       /\ lights' = [l \in Lines |->
            _control_traffic_lights(active_trains', l, occupancy[l], lights[l])]
       /\ train_cmd' = [l \in Lines |-> TrainCommands(active_trains', l)]]_vars

\* the expected_path runs from the current block to the station block of the
\* leg and repeats no block at once
PathShaped(t) ==
  /\ t.expected_path # <<>>
  /\ t.expected_path[1] = t.current_block
  /\ t.expected_path[Len(t.expected_path)] = t.next_station_block
  /\ \A i \in 1..(Len(t.expected_path) - 1) :
       t.expected_path[i] # t.expected_path[i + 1]

\* C36 Expected-path shape: a train that a tick has put En Route, by a
\* dispatch or by a leg resume, has a non-empty expected_path that starts at
\* its current block, ends at next_station_block and has no block twice in a
\* row.
ExpectedPathShape ==
  [][last' = "tick" =>
       \A id \in DOMAIN active_trains' :
         (/\ active_trains'[id].state = "En Route"
          /\ \/ id \notin DOMAIN active_trains
             \/ active_trains[id].state \in {"Dispatching", "Dwelling", "Arrived"})
           => PathShaped(active_trains'[id])]_vars

\* the train has block 63 ahead on its path within the lookout, entered from
\* block 62
ApproachesFrom62(t) ==
  /\ t.line = "Green"
  /\ SwitchDistance(t, 63) < Inf
  /\ IndexOf(t.expected_path, 63) >= 1
  /\ t.expected_path[IndexOf(t.expected_path, 63)] = 62

\* C37 Yard switch release: after a scan, when a train approaches block 63
\* from block 62 along its path within the five-block lookout and no train is
\* waiting in the yard, switch 63 is at position 0 (63->64), also when it was
\* set to 1 earlier for a train leaving the yard.
YardSwitchRelease ==
  last = "tick" =>
    \A id \in DOMAIN active_trains :
      (/\ ApproachesFrom62(active_trains[id])
       /\ \A other \in DOMAIN active_trains :
            active_trains[other].current_block # 0)
        => switches["Green"][4] = 0

\* C38 Station stop: at the end of every tick, every train in Dwelling or
\* Arrived is commanded speed 0 and authority 0, whatever stop flags the
\* separation, signal and failure logic set or cleared in that tick.
StationStopped ==
  last \in TickKinds =>
    \A id \in DOMAIN active_trains :
      active_trains[id].state \in {"Dwelling", "Arrived"} => Held(active_trains[id])

\* a train that dwells or has arrived carries the failure flag after a tick
StationStoppedWitness ==
  /\ last = "tick"
  /\ \E id \in DOMAIN active_trains :
       /\ active_trains[id].state \in {"Dwelling", "Arrived"}
       /\ active_trains[id].failure_stopped
       /\ Held(active_trains[id])

\* minutes since midnight of a pair <<hour, minute>>
MinuteOfDay(hm) == 60 * hm[1] + hm[2]

\* C39 Schedule order: a tick moves schedule_index by at most one entry and
\* only forward, only while the schedule is running, only when the clock has
\* reached the dispatch time of that entry, and, when the train of the entry
\* exists, only when the tick finds it Arrived; the train then starts the leg
\* of that entry when a route to its destination exists.
ScheduleOrder ==
  [][(last' \in TickKinds /\ schedule_index' # schedule_index) =>
       /\ running
       /\ schedule_index < Len(active_schedule)
       /\ schedule_index' = schedule_index + 1
       /\ LET entry == active_schedule[schedule_index + 1]
          IN /\ MinuteOfDay(ClockText(now)) >=
                  MinuteOfDay(DispatchDigits(entry.dispatch_time))
             /\ entry.train_id \in DOMAIN active_trains
                  => active_trains[entry.train_id].state = "Arrived"
             /\ route_lookup_via_station(entry.line, "Yard",
                                         entry.destination_station) # <<>>
                  => /\ entry.train_id \in DOMAIN active_trains'
                     /\ active_trains'[entry.train_id].destination =
                          entry.destination_station]_vars

\* the second row of the schedule has been dispatched for the train of the
\* first row
ScheduleOrderWitness ==
  /\ last = "tick"
  /\ running
  /\ schedule_index = 2
  /\ active_trains[1].destination = active_schedule[2].destination_station
  /\ active_trains[1].state = "En Route"
  /\ active_trains[1].current_station = "Glenbury"

\* C40 No lost snapshot update: the write of a tick leaves the occupancy and
\* failure arrays as the file held them just before the write, and leaves
\* every switch that was set by another party since the tick read the
\* snapshot at that setting.
NoLostUpdate ==
  [][(pc = "scanned" /\ last' = "tick") =>
       /\ occupancy' = occupancy
       /\ failures' = failures
       /\ \A l \in Lines :
            \A i \in 1..Len(switches[l]) :
              switches[l][i] # tick_start[2][l][i]
                => switches'[l][i] = switches[l][i]]_vars

====
